---------------------------- MODULE Spec2Model ----------------------------
(***************************************************************************)
(* A model of niivue's NVImage (src/src/nvimage.js) and of its volume      *)
(* fragment shaders (src/src/shader-srcs.js).                              *)
(*                                                                         *)
(* Numbers.  JavaScript numbers are modelled as exact integers extended    *)
(* with NaN and +/-Infinity.  The inputs are drawn from values on which    *)
(* the code's floating point arithmetic is exact (small integers; unit     *)
(* quaternions whose rotation matrix is a signed permutation), so storing  *)
(* a value in a Float32Array (gl-matrix) does not change it.               *)
(* JavaScript arrays are functions on 0..n-1; a gl-matrix mat4 is a        *)
(* function on 0..15 indexed exactly as the code indexes it.               *)
(***************************************************************************)
EXTENDS Integers, Sequences, FiniteSets, TLC

VARIABLES
    pc,         \* position in the constructor / in the shader's main()
    hdr,        \* this.hdr: the parsed NIfTI header
    opts,       \* the constructor's arguments kept on the object
    nv,         \* the other fields of the NVImage object
    frag        \* one fragment shader invocation (locals and outputs)

vars == <<pc, hdr, opts, nv, frag>>

----------------------------------------------------------------------------
(* Extended numbers *)

Inf == 2^20
NaN == 2^21

IsNaN(x) == x = NaN
IsFinite(x) == x # NaN /\ x # Inf /\ x # -Inf

Neg(x) == IF x = NaN THEN NaN ELSE -x

Abs(x) == IF x = NaN THEN NaN ELSE IF x < 0 THEN -x ELSE x

Sign(x) == IF x < 0 THEN -1 ELSE IF x > 0 THEN 1 ELSE 0

Mul(x, y) ==
    IF x = NaN \/ y = NaN THEN NaN
    ELSE IF IsFinite(x) /\ IsFinite(y) THEN x * y
    ELSE IF x = 0 \/ y = 0 THEN NaN
    ELSE Sign(x) * Sign(y) * Inf

Add(x, y) ==
    IF x = NaN \/ y = NaN THEN NaN
    ELSE IF IsFinite(x) /\ IsFinite(y) THEN x + y
    ELSE IF IsFinite(y) THEN x
    ELSE IF IsFinite(x) THEN y
    ELSE IF x = y THEN x ELSE NaN

Sub(x, y) == Add(x, Neg(y))

\* the comparisons of JavaScript: false whenever an operand is NaN
Lt(x, y) == x # NaN /\ y # NaN /\ x < y
Gt(x, y) == Lt(y, x)
Le(x, y) == x # NaN /\ y # NaN /\ x <= y
Ge(x, y) == Le(y, x)
StrictEq(x, y) == x # NaN /\ y # NaN /\ x = y

MathMin(x, y) == IF x = NaN \/ y = NaN THEN NaN ELSE IF x < y THEN x ELSE y
MathMax(x, y) == IF x = NaN \/ y = NaN THEN NaN ELSE IF x > y THEN x ELSE y

----------------------------------------------------------------------------
(* NVImage constructor: resolution of hdr.affine *)

Idx3 == 0..2
Idx4 == 0..3

isAffineOK(mtx) ==
    /\ \A i \in Idx4 : \A j \in Idx4 : ~IsNaN(mtx[i][j])
    /\ LET iOK == [i \in Idx3 |-> \E j \in Idx3 : ~StrictEq(mtx[i][j], 0)]
           jOK == [j \in Idx3 |-> \E i \in Idx3 : ~StrictEq(mtx[i][j], 0)]
       IN \A i \in Idx3 : iOK[i] /\ jOK[i]

\* Math.sqrt on the values 1 - (b^2 + c^2 + d^2) takes here.  The quaternion
\* components are held in halves (quatern_b = B/2), so s is in quarters and
\* the root is in halves; s is 0, 1, 4 or negative on the modelled inputs.
MathSqrtQ(s) ==
    IF s < 0 THEN NaN
    ELSE CHOOSE r \in 0..2 : r * r = s

Quarter(x) == IF x = NaN THEN NaN ELSE x \div 4

\* const a, in halves
quatern_a(h) ==
    MathSqrtQ(4 - (h.quatern_b * h.quatern_b + h.quatern_c * h.quatern_c
                   + h.quatern_d * h.quatern_d))

quatern_R(h) ==
    LET a == quatern_a(h)
        b == h.quatern_b
        c == h.quatern_c
        d == h.quatern_d
        aa == Mul(a, a)
        P(x, y) == Mul(2, Mul(x, y))
    IN  << << Quarter(Sub(Sub(Add(aa, b * b), c * c), d * d)),
              Quarter(Sub(P(b, c), P(a, d))),
              Quarter(Add(P(b, d), P(a, c))) >>,
           << Quarter(Add(P(b, c), P(a, d))),
              Quarter(Sub(Sub(Add(aa, c * c), b * b), d * d)),
              Quarter(Sub(P(c, d), P(a, b))) >>,
           << Quarter(Sub(P(b, d), P(a, c))),
              Quarter(Add(P(c, d), P(a, b))),
              Quarter(Sub(Sub(Add(aa, d * d), c * c), b * b)) >> >>

qfacOf_NoDefault(h) == h.pixDims[0]

qfacOf(h) == IF StrictEq(h.pixDims[0], 0) THEN 1 ELSE h.pixDims[0]

\* lines 112-156: hdr.affine rewritten in place from the quaternion
QuaternAffine(h) ==
    LET R == quatern_R(h)
        qfac == qfacOf(h)
        off == <<h.qoffset_x, h.qoffset_y, h.qoffset_z>>
    IN  [i \in Idx4 |->
           IF i = 3 THEN h.affine[3]
           ELSE [j \in Idx4 |->
                   IF j = 3 THEN off[i + 1]
                   ELSE IF j = 2
                        THEN Mul(Mul(R[i + 1][j + 1], h.pixDims[j + 1]), qfac)
                        ELSE Mul(R[i + 1][j + 1], h.pixDims[j + 1])]]

UsesQForm_OnEqualCodes(h, useQFormNotSForm) ==
    \/ useQFormNotSForm
    \/ ~isAffineOK(h.affine)
    \/ Ge(h.qform_code, h.sform_code)

UsesQForm(h, useQFormNotSForm) ==
    \/ useQFormNotSForm
    \/ ~isAffineOK(h.affine)
    \/ Gt(h.qform_code, h.sform_code)

FallbackSpacing_NoZero(x) == IF IsNaN(x) THEN 1 ELSE x

FallbackSpacing(x) == IF IsNaN(x) \/ StrictEq(x, 0) THEN 1 ELSE x

DiagAffine(x, y, z) ==
    [i \in Idx4 |-> [j \in Idx4 |->
        IF i # j THEN 0
        ELSE IF i = 0 THEN x ELSE IF i = 1 THEN y ELSE IF i = 2 THEN z ELSE 1]]

\* lines 158-177: the defective-affine fallback
DefectiveFallback(h) ==
    LET x == FallbackSpacing(h.pixDims[1])
        y == FallbackSpacing(h.pixDims[2])
        z == FallbackSpacing(h.pixDims[3])
    IN  [h EXCEPT !.pixDims = [k \in Idx4 |->
                     IF k = 1 THEN x ELSE IF k = 2 THEN y
                     ELSE IF k = 3 THEN z ELSE h.pixDims[k]],
                  !.affine = DiagAffine(x, y, z)]

\* lines 106-157
AfterQForm(h, useQFormNotSForm) ==
    IF UsesQForm(h, useQFormNotSForm)
    THEN [h EXCEPT !.affine = QuaternAffine(h)]
    ELSE h

\* lines 106-177
ResolvedHeader(h, useQFormNotSForm) ==
    LET h1 == AfterQForm(h, useQFormNotSForm)
    IN  IF isAffineOK(h1.affine) THEN h1 ELSE DefectiveFallback(h1)

----------------------------------------------------------------------------
(* gl-matrix, as far as calculateRAS uses it.  A mat4 is the linear array *)
(* the code indexes; fromValues stores its arguments in the order given.  *)

Idx16 == 0..15

Mat4Create == [k \in Idx16 |-> IF k % 5 = 0 THEN 1 ELSE 0]

\* mat4.multiply(out, a, b)
Mat4Multiply(a, b) ==
    [n \in Idx16 |->
        LET r == n \div 4
            c == n % 4
        IN  Add(Add(Mul(b[4 * r], a[c]), Mul(b[4 * r + 1], a[4 + c])),
                Add(Mul(b[4 * r + 2], a[8 + c]), Mul(b[4 * r + 3], a[12 + c])))]

Others(i) ==
    IF i = 0 THEN <<1, 2, 3>> ELSE IF i = 1 THEN <<0, 2, 3>>
    ELSE IF i = 2 THEN <<0, 1, 3>> ELSE <<0, 1, 2>>

\* determinant of a with row i and column j struck out
Minor(a, i, j) ==
    LET r == Others(i)
        c == Others(j)
        e(x, y) == a[4 * r[x] + c[y]]
    IN    e(1, 1) * (e(2, 2) * e(3, 3) - e(2, 3) * e(3, 2))
        - e(1, 2) * (e(2, 1) * e(3, 3) - e(2, 3) * e(3, 1))
        + e(1, 3) * (e(2, 1) * e(3, 2) - e(2, 2) * e(3, 1))

AltSign(k) == IF k % 2 = 0 THEN 1 ELSE -1

Mat4Det(a) ==
    a[0] * Minor(a, 0, 0) - a[1] * Minor(a, 0, 1)
    + a[2] * Minor(a, 0, 2) - a[3] * Minor(a, 0, 3)

\* mat4.invert(out, a) with out a fresh identity: a singular a leaves out as
\* it was.  calculateRAS inverts matrices of determinant +1 or -1 only.
Mat4Invert(a) ==
    LET det == Mat4Det(a)
    IN  IF det = 0 THEN Mat4Create
        ELSE [n \in Idx16 |->
                (AltSign((n \div 4) + (n % 4)) * Minor(a, n % 4, n \div 4))
                    \div det]

\* NVImage.prototype.vox2mm: the matrix is applied to (x, y, z, 1) row by row
vox2mm(XYZ, mtx) ==
    [i \in Idx3 |->
        Add(Add(Mul(mtx[4 * i], XYZ[0]), Mul(mtx[4 * i + 1], XYZ[1])),
            Add(Mul(mtx[4 * i + 2], XYZ[2]), mtx[4 * i + 3]))]

----------------------------------------------------------------------------
(* NVImage.prototype.calculateRAS *)

\* lines 285-295
AbsR(a) == [k \in 0..8 |-> Abs(a[k \div 3][k % 3])]

Ixyz0(absR) ==
    LET first == IF Gt(absR[3], absR[0]) THEN 2 ELSE 1
    IN  IF Gt(absR[6], absR[0]) /\ Gt(absR[6], absR[3]) THEN 3 ELSE first

Ixyz1(absR, x) ==
    IF x = 1 THEN (IF Gt(absR[4], absR[7]) THEN 2 ELSE 3)
    ELSE IF x = 2 THEN (IF Gt(absR[1], absR[7]) THEN 1 ELSE 3)
    ELSE (IF Gt(absR[1], absR[4]) THEN 1 ELSE 2)

\* lines 296-328
IxyzOf(a) ==
    LET absR == AbsR(a)
        x == Ixyz0(absR)
        y == Ixyz1(absR, x)
    IN  [k \in Idx3 |-> IF k = 0 THEN x ELSE IF k = 1 THEN y ELSE 6 - y - x]

PermOf_NotInverted(ixyz) == ixyz

\* lines 329-332: three assignments, in this order
PermOf(ixyz) ==
    LET p0 == [k \in Idx3 |-> k + 1]
        p1 == [p0 EXCEPT ![ixyz[0] - 1] = 1]
        p2 == [p1 EXCEPT ![ixyz[1] - 1] = 2]
    IN  [p2 EXCEPT ![ixyz[2] - 1] = 3]

RotMOf_ColumnMajor(a) ==
    [k \in Idx16 |->
        IF k % 4 < 3 THEN a[k % 4][k \div 4] ELSE IF k = 15 THEN 1 ELSE 0]

\* lines 333-350
RotMOf(a) ==
    [k \in Idx16 |->
        IF k < 12 THEN a[k \div 4][k % 4] ELSE IF k = 15 THEN 1 ELSE 0]

\* lines 356-362
PermutedR(rotM, perm) ==
    [k \in Idx16 |->
        IF (k \div 4) < 3 /\ (k % 4) < 3
        THEN rotM[(k \div 4) * 4 + perm[k % 4] - 1]
        ELSE rotM[k]]

\* lines 363-372
FlipOf(R) == [k \in Idx3 |-> IF Lt(R[5 * k], 0) THEN 1 ELSE 0]

ReindexRAS(arr, perm) ==
    [k \in Idx4 |-> IF k = 0 THEN arr[0] ELSE arr[perm[k - 1]]]

FlipTranslate_NoOffset(h, perm, flip) ==
    [k \in Idx16 |->
        IF k \in {0, 5, 10} THEN 1 - flip[k \div 5] * 2
        ELSE IF k = 15 THEN 1 ELSE 0]

\* lines 391-397: rotM, the reflections with their translation
FlipTranslate(h, perm, flip) ==
    [k \in Idx16 |->
        IF k \in {0, 5, 10} THEN 1 - flip[k \div 5] * 2
        ELSE IF k \in {3, 7, 11}
             THEN (h.dims[perm[k \div 4]] - 1) * flip[k \div 4]
        ELSE IF k = 15 THEN 1 ELSE 0]

\* lines 402-409
ToRASOf(perm, flip) ==
    [k \in Idx16 |->
        IF k = 15 THEN 1
        ELSE IF k \div 4 < 3 /\ k % 4 = 3 THEN flip[k \div 4]
        ELSE IF k \div 4 < 3 /\ k % 4 = perm[k \div 4] - 1
             THEN -flip[k \div 4] * 2 + 1
        ELSE 0]

IsIdentityOrientation(perm, flip) ==
    /\ \A k \in Idx3 : perm[k] = k + 1
    /\ \A k \in Idx3 : flip[k] = 0

MatRASOf_OperandsSwapped(h, rotM, R, perm, flip) ==
    IF IsIdentityOrientation(perm, flip) THEN rotM
    ELSE Mat4Multiply(R, Mat4Invert(FlipTranslate(h, perm, flip)))

\* lines 385-401: matRAS
MatRASOf(h, rotM, R, perm, flip) ==
    IF IsIdentityOrientation(perm, flip) THEN rotM
    ELSE Mat4Multiply(Mat4Invert(FlipTranslate(h, perm, flip)), R)

\* the fields calculateRAS computes, with its locals ixyz, perm and flip
RASOf(h) ==
    LET a == h.affine
        ixyz == IxyzOf(a)
        perm == PermOf(ixyz)
        rotM == RotMOf(a)
        R == PermutedR(rotM, perm)
        flip == FlipOf(R)
    IN  [ixyz |-> ixyz, perm |-> perm, flip |-> flip,
         dimsRAS |-> ReindexRAS(h.dims, perm),
         pixDimsRAS |-> ReindexRAS(h.pixDims, perm),
         toRAS |-> IF IsIdentityOrientation(perm, flip) THEN Mat4Create
                   ELSE ToRASOf(perm, flip),
         matRAS |-> MatRASOf(h, rotM, R, perm, flip)]

----------------------------------------------------------------------------
(* The headers nifti.readHeader hands to the constructor.  The reader      *)
(* always sets the last row of hdr.affine to 0 0 0 1.                      *)

MaxDim == 3

MkAffine(c0, c1, c2, t) ==
    [i \in Idx4 |->
        IF i = 3 THEN [j \in Idx4 |-> IF j = 3 THEN 1 ELSE 0]
        ELSE [j \in Idx4 |->
                IF j = 0 THEN c0[i + 1] ELSE IF j = 1 THEN c1[i + 1]
                ELSE IF j = 2 THEN c2[i + 1] ELSE t[i + 1]]]

Arr4(a, b, c, d) ==
    [k \in Idx4 |-> IF k = 0 THEN a ELSE IF k = 1 THEN b
                    ELSE IF k = 2 THEN c ELSE d]

MkHdr(aff, q, off, pix, dims, qc, sc) ==
    [affine |-> aff,
     quatern_b |-> q[1], quatern_c |-> q[2], quatern_d |-> q[3],
     qoffset_x |-> off[1], qoffset_y |-> off[2], qoffset_z |-> off[3],
     pixDims |-> pix, dims |-> dims,
     qform_code |-> qc, sform_code |-> sc,
     scl_slope |-> 1, scl_inter |-> 0, cal_min |-> 0, cal_max |-> 0]

\* columns of the sform block: axis aligned, reflected, tied, oblique,
\* all zero, and with a NaN
SformCols01 ==
    { <<1, 0, 0>>, <<0, 1, 0>>, <<0, 0, 1>>, <<-2, 0, 0>>, <<0, -2, 0>>,
      <<0, 0, -1>>, <<1, 1, 1>>, <<2, -1, 0>>, <<0, 0, 0>>, <<NaN, 1, 0>> }

SformCols2 ==
    { <<0, 0, 1>>, <<0, 0, -2>>, <<1, 0, 0>>, <<0, -1, 1>>, <<0, 0, 0>> }

SformOffsets == { <<0, 0, 0>>, <<-3, 2, 5>> }

QOffsets == { <<0, 0, 0>>, <<-1, 2, 3>>, <<NaN, 0, 0>> }

Halves == -2..2

\* (2 quatern_b, 2 quatern_c, 2 quatern_d): the unit quaternions with a
\* rational a, and two with b^2 + c^2 + d^2 > 1
Quaternions ==
    { q \in Halves \X Halves \X Halves :
        q[1] * q[1] + q[2] * q[2] + q[3] * q[3] \in {0, 3, 4} }
    \cup { <<2, 2, 0>>, <<-2, 1, 2>> }

Spacings ==
    { <<1, 1, 1>>, <<1, 2, 3>>, <<0, 1, 1>>, <<NaN, 1, 2>>, <<1, Inf, 1>>,
      <<2, 2, -1>> }

AllDims == { Arr4(3, x, y, z) : x \in 1..MaxDim, y \in 1..MaxDim, z \in 1..MaxDim }

\* images whose matrix form decides the orientation
SformInputs ==
    { [hdr |-> MkHdr(MkAffine(c0, c1, c2, t), <<0, 0, 0>>, <<0, 0, 0>>,
                     Arr4(1, 1, 2, 3), d, 0, 1),
       useQFormNotSForm |-> FALSE] :
        c0 \in SformCols01, c1 \in SformCols01, c2 \in SformCols2,
        t \in SformOffsets, d \in AllDims }

\* images whose quaternion may decide it
QformInputs ==
    { [hdr |-> MkHdr(MkAffine(c, <<0, 1, 0>>, <<0, 0, 1>>, <<0, 0, 0>>),
                     q, off, Arr4(qfac, sp[1], sp[2], sp[3]),
                     Arr4(3, MaxDim, 2, 1), codes[1], codes[2]),
       useQFormNotSForm |-> u] :
        c \in { <<1, 0, 0>>, <<0, 0, 0>> }, q \in Quaternions,
        off \in QOffsets, qfac \in {-1, 0, 1}, sp \in Spacings,
        codes \in { <<1, 0>>, <<1, 1>>, <<0, 1>> }, u \in BOOLEAN }

NoFrag == [none |-> TRUE]

InitAffine ==
    /\ pc = "affine"
    /\ \E inp \in SformInputs \cup QformInputs :
          /\ hdr = inp.hdr
          /\ opts = [useQFormNotSForm |-> inp.useQFormNotSForm,
                     hdr0 |-> inp.hdr]
    /\ nv = [usedQForm |-> FALSE, defective |-> FALSE]
    /\ frag = NoFrag

\* constructor, lines 106-177
ResolveAffine ==
    /\ pc = "affine"
    /\ hdr' = ResolvedHeader(hdr, opts.useQFormNotSForm)
    /\ nv' = [nv EXCEPT
                !.usedQForm = UsesQForm(hdr, opts.useQFormNotSForm),
                !.defective = ~isAffineOK(
                    AfterQForm(hdr, opts.useQFormNotSForm).affine)]
    /\ pc' = "calculateRAS"
    /\ UNCHANGED <<opts, frag>>

\* constructor, line 239
CalculateRAS ==
    /\ pc = "calculateRAS"
    /\ nv' = RASOf(hdr) @@ nv
    /\ pc' = "constructed"
    /\ UNCHANGED <<hdr, opts, frag>>

NextAffine == ResolveAffine \/ CalculateRAS

SpecAffine == InitAffine /\ [][NextAffine]_vars

----------------------------------------------------------------------------
(* Claims about the affine resolution and calculateRAS (SpecAffine) *)

Resolved == pc \in {"calculateRAS", "constructed"}

WellFormed(m) ==
    /\ \A i \in Idx4 : \A j \in Idx4 : m[i][j] # NaN
    /\ \A i \in Idx3 : \E j \in Idx3 : m[i][j] # 0
    /\ \A j \in Idx3 : \E i \in Idx3 : m[i][j] # 0

\* C1: whatever the parsed header, once the constructor has resolved the
\* affine, hdr.affine has no NaN entry and its 3x3 block has no all-zero
\* row and no all-zero column.
C1_AffineWellFormed == Resolved => WellFormed(hdr.affine)

\* C1 witness: the matrix form and the quaternion form were both malformed
\* (a zero spacing) and the diagonal fallback was built.
C1_Witness ==
    /\ Resolved
    /\ nv.usedQForm /\ nv.defective
    /\ opts.hdr0.pixDims[1] = 0

IsPerm123(f) == \A v \in 1..3 : Cardinality({k \in Idx3 : f[k] = v}) = 1

\* C2: calculateRAS leaves ixyz and perm each a permutation of {1,2,3},
\* perm the inverse of ixyz, and every reflection flag 0 or 1.
C2_PermutationAndFlags ==
    pc = "constructed" =>
        /\ IsPerm123(nv.ixyz)
        /\ IsPerm123(nv.perm)
        /\ \A k \in Idx3 : nv.perm[nv.ixyz[k] - 1] = k + 1
        /\ \A k \in Idx3 : nv.flip[k] \in {0, 1}

\* C2 witness: a cyclic permutation (which differs from its inverse) with a
\* reflected axis.
C2_Witness ==
    /\ pc = "constructed"
    /\ nv.ixyz = [k \in Idx3 |-> IF k = 0 THEN 2 ELSE IF k = 1 THEN 3 ELSE 1]
    /\ nv.flip[1] = 1

\* Native voxel index n as the fractional (texture) coordinate of its centre,
\* (n + 0.5) / dim, held as numerators over the common denominator FracDen.
FracDen(d) == 2 * d[1] * d[2] * d[3]

FracOfVoxel(n, d) ==
    [k \in Idx3 |-> (2 * n[k] + 1) * (FracDen(d) \div (2 * d[k + 1]))]

\* a mat4 applied to (x, y, z, w) as vox2mm applies it
ApplyHomog(m, v, w) ==
    [i \in Idx3 |->
        m[4 * i] * v[0] + m[4 * i + 1] * v[1] + m[4 * i + 2] * v[2]
        + m[4 * i + 3] * w]

\* native voxel -> canonical voxel through toRAS (fractional coordinates);
\* the result is doubled-plus-one so that a centre is an odd number
NativeToCanonical2(n) ==
    LET L == FracDen(hdr.dims)
        y == ApplyHomog(nv.toRAS, FracOfVoxel(n, hdr.dims), L)
    IN  [k \in Idx3 |-> (2 * y[k] * nv.dimsRAS[k + 1]) \div L]

NativeToCanonicalExact(n) ==
    LET L == FracDen(hdr.dims)
        y == ApplyHomog(nv.toRAS, FracOfVoxel(n, hdr.dims), L)
    IN  \A k \in Idx3 : (2 * y[k] * nv.dimsRAS[k + 1]) % L = 0

\* canonical voxel -> native voxel through the reflection/translation matrix
\* of lines 391-397 and the permutation
CanonicalToNative(c) ==
    LET p == ApplyHomog(FlipTranslate(hdr, nv.perm, nv.flip), c, 1)
    IN  [k \in Idx3 |-> p[nv.ixyz[k] - 1]]

NativeVoxels ==
    { n \in [Idx3 -> 0..(MaxDim - 1)] : \A k \in Idx3 : n[k] < hdr.dims[k + 1] }

CanonicalVoxels ==
    { c \in [Idx3 -> 0..(MaxDim - 1)] : \A k \in Idx3 : c[k] < nv.dimsRAS[k + 1] }

\* C3: for every voxel centre of the volume the native->canonical transform
\* (toRAS) and the canonical->native transform (permutation, reflection and
\* translation) are mutual inverses: each round trip returns the voxel.
C3_RoundTrip ==
    pc = "constructed" =>
        /\ \A n \in NativeVoxels :
              /\ NativeToCanonicalExact(n)
              /\ LET c2 == NativeToCanonical2(n)
                     c == [k \in Idx3 |-> (c2[k] - 1) \div 2]
                 IN  /\ \A k \in Idx3 : c2[k] % 2 = 1
                     /\ c \in CanonicalVoxels
                     /\ CanonicalToNative(c) = n
        /\ \A c \in CanonicalVoxels :
              LET n == CanonicalToNative(c)
              IN  /\ n \in NativeVoxels
                  /\ NativeToCanonicalExact(n)
                  /\ NativeToCanonical2(n) = [k \in Idx3 |-> 2 * c[k] + 1]

\* C3 witness: a cyclic permutation with a reflection on a volume whose
\* three dimensions differ.
C3_Witness ==
    /\ pc = "constructed"
    /\ nv.perm = [k \in Idx3 |-> IF k = 0 THEN 2 ELSE IF k = 1 THEN 3 ELSE 1]
    /\ nv.flip[0] = 1
    /\ hdr.dims[1] = 3 /\ hdr.dims[2] = 2 /\ hdr.dims[3] = 1

Identity4 ==
    [k \in Idx16 |-> IF k \in {0, 5, 10, 15} THEN 1 ELSE 0]

\* C4: with the identity permutation and no reflection, toRAS is the 4x4
\* identity, matRAS equals hdr.affine entry for entry, and dimsRAS and
\* pixDimsRAS equal the header's dims and pixDims.
C4_IdentityOrientation ==
    (/\ pc = "constructed"
     /\ nv.perm = [k \in Idx3 |-> k + 1]
     /\ nv.flip = [k \in Idx3 |-> 0])
    => /\ nv.toRAS = Identity4
       /\ \A i \in Idx4 : \A j \in Idx4 : nv.matRAS[4 * i + j] = hdr.affine[i][j]
       /\ \A k \in Idx4 : nv.dimsRAS[k] = hdr.dims[k]
       /\ \A k \in Idx4 : nv.pixDimsRAS[k] = hdr.pixDims[k]

\* C4 witness: an oblique, translated affine that is already canonical.
C4_Witness ==
    /\ pc = "constructed"
    /\ nv.perm = [k \in Idx3 |-> k + 1]
    /\ nv.flip = [k \in Idx3 |-> 0]
    /\ hdr.affine[1][0] # 0
    /\ hdr.affine[0][3] # 0
    /\ hdr.dims[1] # hdr.dims[2]

QuaternionIsZero(h) ==
    h.quatern_b = 0 /\ h.quatern_c = 0 /\ h.quatern_d = 0

DiagonalOf(m, x, y, z) ==
    \A i \in Idx3 : \A j \in Idx3 :
        m[i][j] = IF i # j THEN 0 ELSE IF i = 0 THEN x ELSE IF i = 1 THEN y ELSE z

TranslationOf(m, x, y, z) == m[0][3] = x /\ m[1][3] = y /\ m[2][3] = z

C5_Case ==
    /\ Resolved
    /\ nv.usedQForm
    /\ QuaternionIsZero(opts.hdr0)
    /\ opts.hdr0.pixDims[0] \in {0, 1}

\* C5 as stated: whenever the quaternion branch runs with b = c = d = 0 and
\* qfac = 1, the resolved affine is diag(pixDims[1..3]) with the qoffsets as
\* its translation.
C5_Original ==
    C5_Case =>
        /\ DiagonalOf(hdr.affine, hdr.pixDims[1], hdr.pixDims[2], hdr.pixDims[3])
        /\ TranslationOf(hdr.affine, hdr.qoffset_x, hdr.qoffset_y, hdr.qoffset_z)

\* C5 amended: the same, provided pixDims[1..3] are finite and non-zero and
\* no qoffset is NaN (otherwise the derived affine is malformed and the
\* diagonal fallback, with zero translation, replaces it); for spacing
\* (1,1,1) and zero offsets the affine is diag(1,1,1) with zero translation.
C5_Amended ==
    /\ (/\ C5_Case
        /\ \A k \in 1..3 : IsFinite(opts.hdr0.pixDims[k]) /\ opts.hdr0.pixDims[k] # 0
        /\ opts.hdr0.qoffset_x # NaN /\ opts.hdr0.qoffset_y # NaN
        /\ opts.hdr0.qoffset_z # NaN)
       => /\ ~nv.defective
          /\ DiagonalOf(hdr.affine, opts.hdr0.pixDims[1], opts.hdr0.pixDims[2],
                        opts.hdr0.pixDims[3])
          /\ TranslationOf(hdr.affine, opts.hdr0.qoffset_x, opts.hdr0.qoffset_y,
                           opts.hdr0.qoffset_z)
    /\ (/\ C5_Case
        /\ \A k \in 1..3 : opts.hdr0.pixDims[k] = 1
        /\ opts.hdr0.qoffset_x = 0 /\ opts.hdr0.qoffset_y = 0
        /\ opts.hdr0.qoffset_z = 0)
       => /\ DiagonalOf(hdr.affine, 1, 1, 1)
          /\ TranslationOf(hdr.affine, 0, 0, 0)

\* C5 witness: the quaternion branch taken because qform_code > sform_code,
\* zero quaternion, qfac from a stored 0, anisotropic spacing, an offset.
C5_Witness ==
    /\ C5_Case
    /\ ~opts.useQFormNotSForm
    /\ opts.hdr0.qform_code > opts.hdr0.sform_code
    /\ opts.hdr0.pixDims[0] = 0
    /\ hdr.affine[1][1] = 2 /\ hdr.affine[2][2] = 3
    /\ hdr.affine[0][3] = -1

----------------------------------------------------------------------------
(* calMinMax (nvimage.js 466-614)                                          *)
(*                                                                         *)
(* Voxel values and the header's intensity fields are integers or NaN.     *)
(* The histogram has nBins - 1 = 1000 intervals, so every calibration      *)
(* value the function computes is a multiple of 1/1000 of the voxel unit:  *)
(* cal_min, cal_max, robust_min, robust_max, global_min and global_max     *)
(* are held in thousandths.  A field that was never assigned is Undefined. *)
(* percentileFrac is held in hundredths (2 stands for 0.02).               *)

Undefined == 2^22

nBins == 1001

Thousandths(x) == Mul(nBins - 1, x)

\* Math.round of the quotient num / den (den > 0): the nearest integer,
\* a tie going up
MathRound(num, den) == (2 * num + den) \div (2 * den)

\* raw * hdr.scl_slope + hdr.scl_inter of a raw value given in thousandths
intensityRaw2Scaled(h, raw) ==
    LET slope == IF StrictEq(h.scl_slope, 0) THEN 1 ELSE h.scl_slope
    IN  Add(Mul(raw, slope), Thousandths(h.scl_inter))

\* the colour maps of ./cmaps: "gray" carries no display range, "bounded"
\* stands for a map that carries one; any other name is not in the list
ColorMapNames == {"gray", "bounded"}

CmapMin(cm) ==
    IF cm \notin ColorMapNames THEN 0
    ELSE IF cm = "bounded" THEN -1 ELSE Undefined

CmapMax(cm) ==
    IF cm \notin ColorMapNames THEN 0
    ELSE IF cm = "bounded" THEN 4 ELSE Undefined

\* the voxels that reach lines 522-523 of the scan, and that are counted
\* into the histogram (548-550, 554-557); the histogram loops also visit
\* img[nVox], which is undefined and skipped by their isNaN test
Counted(img, ignoreZeroVoxels) ==
    { i \in DOMAIN img :
        ~IsNaN(img[i]) /\ ~(StrictEq(img[i], 0) /\ ignoreZeroVoxels) }

SetMin(S) == CHOOSE x \in S : \A y \in S : x <= y
SetMax(S) == CHOOSE x \in S : \A y \in S : x >= y

ScanMin_FromZero(img, ignoreZeroVoxels) ==
    SetMin({0} \cup {img[i] : i \in Counted(img, ignoreZeroVoxels)})

\* mn after the scan: Math.min folded over the counted voxels, starting
\* from img[0]; Math.min returns NaN once mn is NaN
ScanMin(img, ignoreZeroVoxels) ==
    IF IsNaN(img[0]) THEN NaN
    ELSE SetMin({img[0]} \cup {img[i] : i \in Counted(img, ignoreZeroVoxels)})

ScanMax(img, ignoreZeroVoxels) ==
    IF IsNaN(img[0]) THEN NaN
    ELSE SetMax({img[0]} \cup {img[i] : i \in Counted(img, ignoreZeroVoxels)})

\* nVox - nZero at line 529: nZero counts the NaN voxels, and the zero
\* voxels when they are ignored
CountedVoxels(img, ignoreZeroVoxels) ==
    Cardinality(DOMAIN img)
      - Cardinality({i \in DOMAIN img : IsNaN(img[i])})
      - (IF ignoreZeroVoxels
         THEN Cardinality({i \in DOMAIN img : StrictEq(img[i], 0)})
         ELSE 0)

N2pct(img, ignoreZeroVoxels, percentileFrac) ==
    MathRound(CountedVoxels(img, ignoreZeroVoxels) * percentileFrac, 100)

\* Math.round((img[i] - mn) * scl) with scl = (nBins - 1) / (mx - mn)
BinOf(v, mn, mx) ==
    IF IsNaN(mn) \/ IsNaN(mx) THEN NaN
    ELSE MathRound((v - mn) * (nBins - 1), mx - mn)

\* the bin index of every counted voxel
Bins(img, ignoreZeroVoxels, mn, mx) ==
    [i \in Counted(img, ignoreZeroVoxels) |-> BinOf(img[i], mn, mx)]

\* hist[k]; an index that is NaN increments no bin
HistAt(bins, k) == Cardinality({i \in DOMAIN bins : bins[i] = k})

\* hist[0] + ... + hist[k]
SumFromBottom(bins, k) ==
    Cardinality({i \in DOMAIN bins : bins[i] \in 0..k})

\* hist[nBins-1] + ... + hist[k]
SumFromTop(bins, k) ==
    Cardinality({i \in DOMAIN bins : bins[i] \in k..(nBins - 1)})

\* lo after lines 561-566: the loop leaves lo at the first bin where the
\* running sum reaches n2pct; when no bin does, it reads hist[nBins], adds
\* undefined, n becomes NaN and the loop ends with lo = nBins
WalkLo(bins, n2pct) ==
    LET reached == {k \in 0..(nBins - 1) : SumFromBottom(bins, k) >= n2pct}
    IN  IF reached = {} THEN nBins ELSE SetMin(reached)

\* hi after lines 568-572, symmetrically; when no bin reaches n2pct the
\* loop reads hist[-1] and ends with hi = -1
WalkHi(bins, n2pct) ==
    LET reached == {k \in 0..(nBins - 1) : SumFromTop(bins, k) >= n2pct}
    IN  IF reached = {} THEN -1 ELSE SetMax(reached)

\* lines 573-587 for lo = hi = b.  In its t-th round the loop moves lo to
\* b - t (while lo > 0) and stops if that bin is populated, otherwise
\* moves hi to b + t (while hi < nBins - 1) and stops if that bin is
\* populated, and stops when lo = 0 and hi = nBins - 1
ExpandLo(b, t) == IF b - t > 0 THEN b - t ELSE 0
ExpandHi(b, t) == IF b + t < nBins - 1 THEN b + t ELSE nBins - 1
StopsAtLo(bins, b, t) == b - t >= 0 /\ HistAt(bins, b - t) > 0
StopsAtHi(bins, b, t) == b + t <= nBins - 1 /\ HistAt(bins, b + t) > 0

Expand(bins, b) ==
    LET rounds == { t \in 1..(nBins - 1) :
                      \/ StopsAtLo(bins, b, t)
                      \/ StopsAtHi(bins, b, t)
                      \/ ExpandLo(b, t) = 0 /\ ExpandHi(b, t) = nBins - 1 }
        last == SetMin(rounds)
    IN  [lo |-> ExpandLo(b, last),
         hi |-> IF StopsAtLo(bins, b, last) THEN ExpandHi(b, last - 1)
                ELSE ExpandHi(b, last)]

\* lines 540-613: the histogram, the two walks, the expansion, the
\* header's display range and the assignments
RobustRange(img, h, o, mn, mx, n2pct) ==
    LET bins == Bins(img, o.ignoreZeroVoxels, mn, mx)
        walkLo == WalkLo(bins, n2pct)
        walkHi == WalkHi(bins, n2pct)
        ends == IF walkLo = walkHi THEN Expand(bins, walkLo)
                ELSE [lo |-> walkLo, hi |-> walkHi]
        \* lo / scl + mn, in thousandths
        rawOf(bin) == Add(Mul(bin, Sub(mx, mn)), Thousandths(mn))
        mnScale == intensityRaw2Scaled(h, Thousandths(mn))
        mxScale == intensityRaw2Scaled(h, Thousandths(mx))
        useHeader == /\ Lt(h.cal_min, h.cal_max)
                     /\ Ge(Thousandths(h.cal_min), mnScale)
                     /\ Le(Thousandths(h.cal_max), mxScale)
        pct2 == IF useHeader THEN Thousandths(h.cal_min)
                ELSE intensityRaw2Scaled(h, rawOf(ends.lo))
        pct98 == IF useHeader THEN Thousandths(h.cal_max)
                 ELSE intensityRaw2Scaled(h, rawOf(ends.hi))
    IN  [cal_min |-> pct2, cal_max |-> pct98,
         robust_min |-> pct2, robust_max |-> pct98,
         global_min |-> mnScale, global_max |-> mxScale,
         path |-> "histogram", mn |-> mn, mx |-> mx, n2pct |-> n2pct,
         walkLo |-> walkLo, walkHi |-> walkHi,
         lo |-> ends.lo, hi |-> ends.hi]

\* lines 505-539: the scan and the image without variability
ScanRange(img, h, o) ==
    LET mn == ScanMin(img, o.ignoreZeroVoxels)
        mx == ScanMax(img, o.ignoreZeroVoxels)
        mnScale == intensityRaw2Scaled(h, Thousandths(mn))
        mxScale == intensityRaw2Scaled(h, Thousandths(mx))
        n2pct == N2pct(img, o.ignoreZeroVoxels, o.percentileFrac)
    IN  IF n2pct < 1 \/ StrictEq(mn, mx)
        THEN [cal_min |-> mnScale, cal_max |-> mxScale,
              robust_min |-> mnScale, robust_max |-> mxScale,
              global_min |-> mnScale, global_max |-> mxScale,
              path |-> "flat", mn |-> mn, mx |-> mx, n2pct |-> n2pct,
              walkLo |-> Undefined, walkHi |-> Undefined,
              lo |-> Undefined, hi |-> Undefined]
        ELSE RobustRange(img, h, o, mn, mx, n2pct)

\* the fields of the object that calMinMax assigns (old holds the fields
\* before the call), with the function's locals
calMinMax(img, h, o, old) ==
    LET none == [path |-> "header", mn |-> Undefined, mx |-> Undefined,
                 n2pct |-> Undefined, walkLo |-> Undefined,
                 walkHi |-> Undefined, lo |-> Undefined, hi |-> Undefined]
    IN  IF /\ o.trustCalMinMax
           /\ IsFinite(h.cal_min) /\ IsFinite(h.cal_max)
           /\ Gt(h.cal_max, h.cal_min)
        THEN [cal_min |-> Thousandths(h.cal_min),
              cal_max |-> Thousandths(h.cal_max),
              robust_min |-> Thousandths(h.cal_min),
              robust_max |-> Thousandths(h.cal_max),
              global_min |-> Thousandths(h.cal_min),
              global_max |-> Thousandths(h.cal_max)] @@ none
        ELSE IF CmapMin(o.colorMap) # CmapMax(o.colorMap)
        THEN [cal_min |-> Thousandths(CmapMin(o.colorMap)),
              cal_max |-> Thousandths(CmapMax(o.colorMap)),
              robust_min |-> Thousandths(CmapMin(o.colorMap)),
              robust_max |-> Thousandths(CmapMax(o.colorMap)),
              global_min |-> old.global_min,
              global_max |-> old.global_max,
              path |-> "colormap"] @@ none
        ELSE ScanRange(img, h, o)

\* lines 103-105 of the constructor
NormalizedIntensity(h) ==
    [h EXCEPT !.scl_slope = IF IsNaN(h.scl_slope) \/ StrictEq(h.scl_slope, 0)
                            THEN 1 ELSE h.scl_slope,
              !.scl_inter = IF IsNaN(h.scl_inter) THEN 0 ELSE h.scl_inter]

----------------------------------------------------------------------------
(* The voxel buffers and options of the calibration specification *)

MaxVox == 4

\* img as the constructor leaves it: a typed array of raw values
ArrayOf(s) == [i \in 0..(Len(s) - 1) |-> s[i + 1]]

VoxelValues == {NaN, 0, 1, 3}

Buffers ==
    UNION { {ArrayOf(s) : s \in [1..n -> VoxelValues]} : n \in 1..MaxVox }

ShortBuffers ==
    UNION { {ArrayOf(s) : s \in [1..n -> {NaN, -2, 0, 3}]} : n \in 1..2 }

\* nEven values evenly spaced over [0, 1000], in units of 1000 / (nEven - 1)
nEven == 1000
EvenBuffer == [i \in 0..(nEven - 1) |-> i]

Percentiles == {2, 50, 150}

MkCalHdr(slope, inter, cal) ==
    [MkHdr(MkAffine(<<1, 0, 0>>, <<0, 1, 0>>, <<0, 0, 1>>, <<0, 0, 0>>),
           <<0, 0, 0>>, <<0, 0, 0>>, Arr4(1, 1, 1, 1), Arr4(3, 1, 1, 1), 0, 1)
     EXCEPT !.scl_slope = slope, !.scl_inter = inter,
            !.cal_min = cal[1], !.cal_max = cal[2]]

MkCalOpts(trust, pct, ignore, cm) ==
    [trustCalMinMax |-> trust, percentileFrac |-> pct,
     ignoreZeroVoxels |-> ignore, colorMap |-> cm]

HeaderRanges == {<<0, 0>>, <<1, 2>>, <<NaN, 3>>, <<2, Inf>>}

Scalings == {<<1, 0>>, <<2, 3>>, <<0, NaN>>}

\* every buffer, scanned
ScanInputs ==
    { [img |-> b, hdr |-> MkCalHdr(h[1], h[2], h[3]),
       opts |-> MkCalOpts(FALSE, p, z, "gray")] :
        b \in Buffers,
        h \in {<<1, 0, <<0, 0>>>>, <<2, 3, <<0, 0>>>>, <<1, 0, <<1, 2>>>>},
        p \in Percentiles, z \in BOOLEAN }

\* every way into calMinMax, on short buffers
PathInputs ==
    { [img |-> b, hdr |-> MkCalHdr(s[1], s[2], c),
       opts |-> MkCalOpts(t, p, z, cm)] :
        b \in ShortBuffers, s \in Scalings, c \in HeaderRanges,
        t \in BOOLEAN, p \in {2, 50}, z \in BOOLEAN,
        cm \in {"gray", "bounded", "viridis"} }

EvenInputs ==
    { [img |-> EvenBuffer, hdr |-> MkCalHdr(1, 0, <<0, 0>>),
       opts |-> MkCalOpts(FALSE, 2, z, "gray")] : z \in BOOLEAN }

Unassigned ==
    [cal_min |-> Undefined, cal_max |-> Undefined,
     robust_min |-> Undefined, robust_max |-> Undefined,
     global_min |-> Undefined, global_max |-> Undefined,
     path |-> "", mn |-> Undefined, mx |-> Undefined, n2pct |-> Undefined,
     walkLo |-> Undefined, walkHi |-> Undefined,
     lo |-> Undefined, hi |-> Undefined]

InitCal ==
    /\ pc = "intensity"
    /\ \E inp \in ScanInputs \cup PathInputs \cup EvenInputs :
          /\ hdr = inp.hdr
          /\ opts = inp.opts
          /\ nv = [img |-> inp.img] @@ Unassigned
    /\ frag = NoFrag

\* lines 103-105
NormalizeIntensity ==
    /\ pc = "intensity"
    /\ hdr' = NormalizedIntensity(hdr)
    /\ pc' = "calMinMax"
    /\ UNCHANGED <<opts, nv, frag>>

\* line 240
CalMinMax ==
    /\ pc = "calMinMax"
    /\ nv' = calMinMax(nv.img, hdr, opts, nv) @@ nv
    /\ pc' = "calibrated"
    /\ UNCHANGED <<hdr, opts, frag>>

NextCal == NormalizeIntensity \/ CalMinMax

SpecCal == InitCal /\ [][NextCal]_vars

----------------------------------------------------------------------------
(* Claims about calMinMax *)

Calibrated == pc = "calibrated"

ScanReached == nv.path \in {"flat", "histogram"}

IsUniform(img) == \A i \in DOMAIN img : img[i] = img[0]

\* V * scl_slope + scl_inter, in thousandths
ScaledValue(v) ==
    IF IsNaN(v) THEN NaN
    ELSE (nBins - 1) * (v * hdr.scl_slope + hdr.scl_inter)

\* C6: when every voxel of the buffer has the same value V and the scan is
\* reached, calMinMax leaves cal_min, cal_max, global_min and global_max
\* all equal to V * scl_slope + scl_inter, whatever percentileFrac and
\* ignoreZeroVoxels are.
C6_UniformBuffer ==
    (Calibrated /\ ScanReached /\ IsUniform(nv.img)) =>
        /\ nv.cal_min = ScaledValue(nv.img[0])
        /\ nv.cal_max = ScaledValue(nv.img[0])
        /\ nv.global_min = ScaledValue(nv.img[0])
        /\ nv.global_max = ScaledValue(nv.img[0])

\* a uniform buffer of several voxels of value 3, scaled by 2 and shifted
\* by 3, calibrated with a percentile fraction above one half
C6_Witness ==
    /\ Calibrated /\ ScanReached /\ IsUniform(nv.img)
    /\ Cardinality(DOMAIN nv.img) > 1
    /\ nv.img[0] = 3
    /\ hdr.scl_slope = 2 /\ hdr.scl_inter = 3
    /\ opts.percentileFrac > 50
    /\ nv.cal_min = 9000 /\ nv.global_max = 9000

HistogramPath == Calibrated /\ nv.path = "histogram"

\* the histogram the call built
BinsBuilt == Bins(nv.img, opts.ignoreZeroVoxels, nv.mn, nv.mx)

\* the low and the high bin are the first bins, from either end, at which
\* the cumulative count reaches n2pct
WalkEndsAtPercentile ==
    /\ nv.n2pct = MathRound(
           Cardinality(Counted(nv.img, opts.ignoreZeroVoxels))
             * opts.percentileFrac, 100)
    /\ nv.walkLo \in 0..(nBins - 1)
    /\ SumFromBottom(BinsBuilt, nv.walkLo) >= nv.n2pct
    /\ \A k \in 0..(nv.walkLo - 1) : SumFromBottom(BinsBuilt, k) < nv.n2pct
    /\ nv.walkHi \in 0..(nBins - 1)
    /\ SumFromTop(BinsBuilt, nv.walkHi) >= nv.n2pct
    /\ \A k \in (nv.walkHi + 1)..(nBins - 1) :
           SumFromTop(BinsBuilt, k) < nv.n2pct

\* the k-th smallest value of the buffer (k = 1 is the minimum)
OrderStatistic(img, k) ==
    CHOOSE v \in {img[i] : i \in DOMAIN img} :
        /\ Cardinality({i \in DOMAIN img : img[i] < v}) < k
        /\ Cardinality({i \in DOMAIN img : img[i] <= v}) >= k

Distance(x, y) == IF x < y THEN y - x ELSE x - y

\* one bin width, (mx - mn) / (nBins - 1), in thousandths
BinWidth == nv.mx - nv.mn

EvenlySpacedCase ==
    HistogramPath /\ nv.img = EvenBuffer /\ opts.percentileFrac = 2

\* 2% of nEven and its mirror rank
LowRank == (2 * nEven) \div 100
HighRank == nEven - LowRank

EvenlySpacedWithinOneBin ==
    /\ Distance(nv.cal_min, Thousandths(OrderStatistic(nv.img, LowRank)))
          <= BinWidth
    /\ Distance(nv.cal_max, Thousandths(OrderStatistic(nv.img, HighRank)))
          <= BinWidth

\* C7: in the histogram path the low bin is the smallest bin whose
\* cumulative count from bin 0 reaches n2pct = round(percentileFrac *
\* counted voxels) and the high bin the largest bin whose cumulative count
\* from bin 1000 downward reaches it; and for 1000 values evenly spaced
\* over [0, 1000] with percentileFrac 0.02, cal_min and cal_max lie within
\* one bin width of the 20th and the 980th order statistic.
C7_PercentileWalk ==
    /\ HistogramPath => WalkEndsAtPercentile
    /\ EvenlySpacedCase => EvenlySpacedWithinOneBin

\* The walk does end at the percentile bins when the first voxel is a
\* number and the fraction is at most one: the scan then yields the true
\* minimum and maximum and some bin reaches n2pct.
WalkEndsAtPercentile_FirstVoxelNumber ==
    (HistogramPath /\ ~IsNaN(nv.img[0]) /\ opts.percentileFrac <= 100)
        => WalkEndsAtPercentile

\* With a first voxel that is NaN the scan leaves mn = mx = NaN, no voxel
\* is binned and the walks run off both ends of the histogram.
WalkRunsOff_FirstVoxelNaN ==
    (HistogramPath /\ IsNaN(nv.img[0]))
        => (nv.walkLo = nBins /\ nv.walkHi = -1 /\ IsNaN(nv.cal_min))

EvenlySpaced_LowEnd ==
    EvenlySpacedCase =>
        Distance(nv.cal_min, Thousandths(OrderStatistic(nv.img, LowRank)))
            <= BinWidth

EvenlySpaced_HighEnd ==
    EvenlySpacedCase =>
        Distance(nv.cal_max, Thousandths(OrderStatistic(nv.img, HighRank)))
            <= BinWidth

EvenlySpaced_HighEndMirrored ==
    EvenlySpacedCase =>
        Distance(nv.cal_max,
                 Thousandths(OrderStatistic(nv.img, HighRank + 1)))
            <= BinWidth

----------------------------------------------------------------------------
(* The volume fragment shaders (shader-srcs.js)                            *)
(*                                                                         *)
(* Fixed point.  A texture coordinate or a distance along the ray is an    *)
(* integer number of position units, StepUnits of them to one slice of     *)
(* the volume, so 1.0 is PosOne.  A colour channel of a sample or of the   *)
(* accumulator is an integer number of 1/ColorOne.  The rays, textures     *)
(* and clip planes are chosen so that every quotient the shaders form is   *)
(* exact in these units.  A vec3 is a sequence of three numbers, a vec4 a  *)
(* record [xyz, a], a colour a record [rgb, a].                            *)

MaxSlices == 2

StepUnits == 2 * 10
PosOne == StepUnits * MaxSlices
PosHalf == PosOne \div 2
ColorOne == 2^5

\* fColor: the rescaling of line 138 divides by earlyTermination = 0.95 =
\* 19/20 and multiplies by backOpacity, so fColor is held in units of
\* 1 / (19 * ColorOne * ColorOne)
OutOne == 19 * ColorOne * ColorOne

VAdd(u, v) == <<u[1] + v[1], u[2] + v[2], u[3] + v[3]>>
VSub(u, v) == <<u[1] - v[1], u[2] - v[2], u[3] - v[3]>>
VScale(u, k) == <<u[1] * k, u[2] * k, u[3] * k>>
Dot(u, v) == u[1] * v[1] + u[2] * v[2] + u[3] * v[3]

Vec4(xyz, a) == [xyz |-> xyz, a |-> a]
Vec4Add(p, q) == [xyz |-> VAdd(p.xyz, q.xyz), a |-> p.a + q.a]
Vec4Sub(p, q) == [xyz |-> VSub(p.xyz, q.xyz), a |-> p.a - q.a]

Min2(x, y) == IF x < y THEN x ELSE y
Max2(x, y) == IF x > y THEN x ELSE y

\* x / c for a divisor of either sign
Quotient(x, c) == IF c < 0 THEN (-x) \div (-c) ELSE x \div c

\* length() of a vector whose length is a whole number of units
Length(v) ==
    CHOOSE r \in 0..(3 * PosOne) : r * r = Dot(v, v)

\* texture(): the texel of the slice that holds the coordinate, the
\* coordinate clamped to the volume's edge; the textures of the model
\* vary along z only
Texture(tex, xyz) ==
    LET k == xyz[3] \div StepUnits
    IN  tex[IF k < 0 THEN 0 ELSE IF k > MaxSlices - 1 THEN MaxSlices - 1 ELSE k]

\* thresholds on a channel held in 1/ColorOne
Below001(a) == 100 * a < ColorOne
Above001(a) == 100 * a > ColorOne
AboveEarlyTermination(a) == 100 * a > 95 * ColorOne

\* fragRenderShader applyClip (41-63): the values of the inout
\* parameters samplePos and len when the function returns
applyClip_NoSentinel(dir, samplePos, len, clipPlane) ==
    LET cdot == Dot(dir, clipPlane.xyz)
        frontface == cdot > 0
        clipThick == 2 * PosOne
        rel == Dot(clipPlane.xyz,
                   VSub(samplePos.xyz, <<PosHalf, PosHalf, PosHalf>>))
        dis == Quotient(-clipPlane.a - rel, cdot)
        disBackFace == Quotient(-(clipPlane.a - clipThick) - rel, cdot)
    IN  IF cdot = 0
        THEN [samplePos |-> samplePos, len |-> len]
        ELSE IF (frontface /\ dis >= len) \/ (~frontface /\ dis <= 0)
        THEN [samplePos |-> [samplePos EXCEPT !.a = len + PosOne],
              len |-> len]
        ELSE IF frontface
        THEN [samplePos |->
                  Vec4(VAdd(samplePos.xyz, VScale(dir, Max2(0, dis))),
                       Max2(0, dis)),
              len |-> Min2(disBackFace, len)]
        ELSE [samplePos |->
                  Vec4(VAdd(samplePos.xyz,
                            VScale(dir, Max2(0, disBackFace))),
                       Max2(0, disBackFace)),
              len |-> Min2(dis, len)]

applyClip(dir, samplePos, len, clipPlane) ==
    LET cdot == Dot(dir, clipPlane.xyz)
        frontface == cdot > 0
        clipThick == 2 * PosOne
        rel == Dot(clipPlane.xyz,
                   VSub(samplePos.xyz, <<PosHalf, PosHalf, PosHalf>>))
        dis == Quotient(-clipPlane.a - rel, cdot)
        disBackFace == Quotient(-(clipPlane.a - clipThick) - rel, cdot)
    IN  IF clipPlane.a > PosOne \/ cdot = 0
        THEN [samplePos |-> samplePos, len |-> len]
        ELSE IF (frontface /\ dis >= len) \/ (~frontface /\ dis <= 0)
        THEN [samplePos |-> [samplePos EXCEPT !.a = len + PosOne],
              len |-> len]
        ELSE IF frontface
        THEN [samplePos |->
                  Vec4(VAdd(samplePos.xyz, VScale(dir, Max2(0, dis))),
                       Max2(0, dis)),
              len |-> Min2(disBackFace, len)]
        ELSE [samplePos |->
                  Vec4(VAdd(samplePos.xyz,
                            VScale(dir, Max2(0, disBackFace))),
                       Max2(0, disBackFace)),
              len |-> Min2(dis, len)]

\* fragVolumePickingShader applyClip (532-554)
applyClipPicking(dir, samplePos, len, clipPlane) ==
    LET cdot == Dot(dir, clipPlane.xyz)
        frontface == cdot > 0
        clipThick == 2 * PosOne
        rel == Dot(clipPlane.xyz,
                   VSub(samplePos.xyz, <<PosHalf, PosHalf, PosHalf>>))
        dis == Quotient(-clipPlane.a - rel, cdot)
        disBackFace == Quotient(-(clipPlane.a - clipThick) - rel, cdot)
    IN  IF clipPlane.a > PosOne \/ cdot = 0
        THEN [samplePos |-> samplePos, len |-> len]
        ELSE IF (frontface /\ dis >= len) \/ (~frontface /\ dis <= 0)
        THEN [samplePos |-> [samplePos EXCEPT !.a = len + PosOne],
              len |-> len]
        ELSE IF frontface
        THEN [samplePos |->
                  Vec4(VAdd(samplePos.xyz, VScale(dir, Max2(0, dis))),
                       Max2(0, dis)),
              len |-> Min2(disBackFace, len)]
        ELSE [samplePos |->
                  Vec4(VAdd(samplePos.xyz,
                            VScale(dir, Max2(0, disBackFace))),
                       Max2(0, disBackFace)),
              len |-> Min2(dis, len)]

\* GetBackPosition (27-40, 518-531); 1.0 / 0.0 is +Infinity
Reciprocal(x) == IF x = 0 THEN Inf ELSE x

GetBackPosition(startPositionTex, rayDir, volScale) ==
    LET startPosition ==
            [i \in 1..3 |-> startPositionTex[i] * volScale[i]]
        invR == [i \in 1..3 |-> Reciprocal(rayDir[i])]
        tbot == [i \in 1..3 |-> Mul(invR[i], 0 - startPosition[i])]
        ttop == [i \in 1..3 |->
                    Mul(invR[i], volScale[i] * PosOne - startPosition[i])]
        tmax == [i \in 1..3 |-> MathMax(ttop[i], tbot[i])]
        tx == MathMin(tmax[1], tmax[2])
        ty == MathMin(tmax[1], tmax[3])
        endPosition ==
            [i \in 1..3 |-> startPosition[i] + rayDir[i] * MathMin(tx, ty)]
    IN  <<endPosition[1] \div volScale[1], endPosition[2] \div volScale[2],
          endPosition[3] \div volScale[3]>>

\* normalize() of a vector of length len
Normalize(v, len) ==
    <<Quotient(v[1], len), Quotient(v[2], len), Quotient(v[3], len)>>

\* pow(x, y) for the only exponent the shaders' step sizes produce:
\* opacityCorrection = stepSize / sliceSize = 1
Pow(x, y) == IF y = 1 THEN x ELSE NaN

\* lines 127-135: what one sample of the base loop does to the
\* accumulation state; p is samplePos after its advance
CompositeBase_NoSkip(f, colorSample, p) ==
    LET alpha == ColorOne - Pow(ColorOne - colorSample.a, f.opacityCorrection)
        premul == [rgb |-> [i \in 1..3 |->
                              (colorSample.rgb[i] * alpha) \div ColorOne],
                   a |-> alpha]
        blend(s, acc) == ((ColorOne - f.colAcc.a) * s) \div ColorOne + acc
    IN  [f EXCEPT
           !.firstHit = IF f.firstHit.a = 0 THEN p ELSE f.firstHit,
           !.backNearest = Min2(f.backNearest, p.a),
           !.colAcc = [rgb |-> [i \in 1..3 |->
                                   blend(premul.rgb[i], f.colAcc.rgb[i])],
                       a |-> blend(premul.a, f.colAcc.a)]]

CompositeBase_Replacing(f, colorSample, p) ==
    IF Below001(colorSample.a) THEN f
    ELSE LET g == CompositeBase_NoSkip(f, colorSample, p)
         IN  [g EXCEPT !.colAcc =
                 IF colorSample.a = ColorOne THEN colorSample ELSE g.colAcc]

CompositeBase(f, colorSample, p) ==
    IF Below001(colorSample.a) THEN f
    ELSE LET alpha == ColorOne
                        - Pow(ColorOne - colorSample.a, f.opacityCorrection)
             premul == [rgb |-> [i \in 1..3 |->
                                   (colorSample.rgb[i] * alpha) \div ColorOne],
                        a |-> alpha]
             blend(s, acc) == ((ColorOne - f.colAcc.a) * s) \div ColorOne + acc
         IN  [f EXCEPT
                !.firstHit = IF f.firstHit.a = 0 THEN p ELSE f.firstHit,
                !.backNearest = Min2(f.backNearest, p.a),
                !.colAcc = [rgb |-> [i \in 1..3 |->
                                        blend(premul.rgb[i], f.colAcc.rgb[i])],
                            a |-> blend(premul.a, f.colAcc.a)]]

\* lines 163-167: the same for the overlay loop
CompositeOverlay(f, colorSample, p) ==
    IF Below001(colorSample.a) THEN f
    ELSE LET alpha == ColorOne
                        - Pow(ColorOne - colorSample.a, f.opacityCorrection)
             premul == [rgb |-> [i \in 1..3 |->
                                   (colorSample.rgb[i] * alpha) \div ColorOne],
                        a |-> alpha]
             blend(s, acc) == ((ColorOne - f.colAcc.a) * s) \div ColorOne + acc
         IN  [f EXCEPT
                !.colAcc = [rgb |-> [i \in 1..3 |->
                                        blend(premul.rgb[i], f.colAcc.rgb[i])],
                            a |-> blend(premul.a, f.colAcc.a)],
                !.overFarthest = p.a]

ZeroVec4 == Vec4(<<0, 0, 0>>, 0)
ZeroColor == [rgb |-> <<0, 0, 0>>, a |-> 0]

\* what the framebuffer may receive for a fragment that returns from main
\* without fColor assigned and without discard: the value of an unwritten
\* output is undefined
UnwrittenColors ==
    { ZeroColor, [rgb |-> <<PosOne, PosOne, PosOne>>, a |-> 255] }

\* the locals and outputs of an invocation before main() has run
FragLocals ==
    [dir |-> <<0, 0, 0>>, len |-> 0, lenNoClip |-> 0, sliceSize |-> 0,
     opacityCorrection |-> 0, deltaDir |-> ZeroVec4,
     deltaDirFast |-> ZeroVec4, samplePos |-> ZeroVec4,
     backedUp |-> ZeroVec4, colAcc |-> ZeroColor, firstHit |-> ZeroVec4,
     backNearest |-> 0, overFarthest |-> 0, colorSample |-> ZeroColor,
     fColor |-> ZeroColor, written |-> FALSE, depthFrom |-> <<>>,
     overlayMix |-> <<>>, outcome |-> "running"]

IsRender == frag.shader = "render"
IsPicking == frag.shader = "picking"

\* fragRenderShader 77-99 and fragVolumePickingShader 556-570: the ray,
\* the guard against short and parallel rays, the step vectors and the
\* clip plane
Setup ==
    /\ pc = "main"
    /\ LET start == frag.vColor
           backPosition ==
               GetBackPosition(start, frag.rayDir, frag.volScale)
           dir == VSub(backPosition, start)
           len == Length(dir)
           lenVox == Length(VSub(
                       [i \in 1..3 |-> frag.texVox[i] * start[i]],
                       [i \in 1..3 |-> frag.texVox[i] * backPosition[i]]))
           zeroed == [frag EXCEPT
                        !.fColor = ZeroColor,
                        !.written = IsRender,
                        !.depthFrom = <<>>]
       IN  IF 2 * lenVox < PosOne \/ len > 3 * PosOne
           THEN /\ \E c \in IF IsRender THEN {ZeroColor}
                                     ELSE UnwrittenColors :
                     frag' = [zeroed EXCEPT !.fColor = c,
                                            !.outcome = "returned"]
                /\ pc' = "done"
           ELSE LET sliceSize == (len * PosOne) \div lenVox
                    stepSize == sliceSize
                    unit == Normalize(dir, len)
                    samplePos == Vec4(start, 0)
                    clipped ==
                        IF IsRender
                        THEN applyClip(unit, samplePos, len, frag.clipPlane)
                        ELSE applyClipPicking(unit, samplePos, len,
                                              frag.clipPlane)
                    stepSizeFast == (sliceSize * 19) \div 10
                IN  /\ frag' = [zeroed EXCEPT
                          !.dir = unit,
                          !.lenNoClip = len,
                          !.sliceSize = sliceSize,
                          !.opacityCorrection = stepSize \div sliceSize,
                          !.deltaDir = Vec4(VScale(unit, stepSize), stepSize),
                          !.deltaDirFast =
                              Vec4(VScale(unit, stepSizeFast), stepSizeFast),
                          !.samplePos = clipped.samplePos,
                          !.len = clipped.len]
                    /\ pc' = "fast"
    /\ UNCHANGED <<hdr, opts, nv>>

\* the jitter deltaDir * ran (ran is held in halves)
Jitter(deltaDir, ran) ==
    Vec4(<<(deltaDir.xyz[1] * ran) \div 2, (deltaDir.xyz[2] * ran) \div 2,
           (deltaDir.xyz[3] * ran) \div 2>>,
         (deltaDir.a * ran) \div 2)

\* fragRenderShader 103-107: a fast-pass sample below the threshold
FastStep ==
    /\ pc = "fast" /\ IsRender
    /\ frag.samplePos.a <= frag.len
    /\ ~Above001(Texture(frag.volume, frag.samplePos.xyz).a)
    /\ frag' = [frag EXCEPT
                  !.samplePos = Vec4Add(frag.samplePos, frag.deltaDirFast)]
    /\ UNCHANGED <<pc, hdr, opts, nv>>

\* fragRenderShader 105, 109-123: the fast pass ends on a hit or past the
\* end of the ray; the position is backed up by one fast step (the
\* assignment of line 116 declares a new variable and changes nothing),
\* the accumulators are initialised and the ray is jittered
FastEnd ==
    /\ pc = "fast" /\ IsRender
    /\ \/ frag.samplePos.a > frag.len
       \/ Above001(Texture(frag.volume, frag.samplePos.xyz).a)
    /\ IF frag.samplePos.a > frag.len /\ frag.overlays < 1
       THEN /\ frag' = [frag EXCEPT !.depthFrom = frag.samplePos.xyz,
                                    !.outcome = "returned"]
            /\ pc' = "done"
       ELSE LET backedUp == Vec4Sub(frag.samplePos, frag.deltaDirFast)
            IN  /\ frag' = [frag EXCEPT
                      !.backedUp = backedUp,
                      !.colAcc = ZeroColor,
                      !.firstHit = ZeroVec4,
                      !.backNearest = frag.len,
                      !.samplePos =
                          Vec4Add(backedUp, Jitter(frag.deltaDir, frag.ran))]
                /\ pc' = "precise"
    /\ UNCHANGED <<hdr, opts, nv>>

\* fragRenderShader 124-136: one sample of the base compositing loop
PreciseStep ==
    /\ pc = "precise"
    /\ frag.samplePos.a <= frag.len
    /\ LET colorSample == Texture(frag.volume, frag.samplePos.xyz)
           advanced == Vec4Add(frag.samplePos, frag.deltaDir)
           f == CompositeBase([frag EXCEPT !.colorSample = colorSample,
                                           !.samplePos = advanced],
                              colorSample, advanced)
       IN  /\ frag' = f
           /\ pc' = IF ~Below001(colorSample.a)
                       /\ AboveEarlyTermination(f.colAcc.a)
                    THEN "composited" ELSE "precise"
    /\ UNCHANGED <<hdr, opts, nv>>

\* fragRenderShader 137-143: the base pass writes its colour (colAcc.a
\* rescaled by earlyTermination and backOpacity) and the overlay pass
\* restarts the ray without the clip plane
BaseDone ==
    /\ \/ pc = "composited"
       \/ pc = "precise" /\ frag.samplePos.a > frag.len
    /\ LET fColor ==
               [rgb |-> <<frag.colAcc.rgb[1] * 19 * ColorOne,
                          frag.colAcc.rgb[2] * 19 * ColorOne,
                          frag.colAcc.rgb[3] * 19 * ColorOne>>,
                a |-> frag.colAcc.a * 20 * frag.backOpacity]
           f == [frag EXCEPT !.depthFrom = frag.firstHit.xyz,
                             !.fColor = fColor]
       IN  IF frag.overlays < 1
           THEN /\ frag' = [f EXCEPT !.outcome = "returned"]
                /\ pc' = "done"
           ELSE /\ frag' = [f EXCEPT !.len = frag.lenNoClip,
                                     !.samplePos = Vec4(frag.vColor, 0)]
                /\ pc' = "overlayFast"
    /\ UNCHANGED <<hdr, opts, nv>>

\* fragRenderShader 147-151
OverlayFastStep ==
    /\ pc = "overlayFast" /\ IsRender
    /\ frag.samplePos.a <= frag.len
    /\ ~Above001(Texture(frag.overlay, frag.samplePos.xyz).a)
    /\ frag' = [frag EXCEPT
                  !.samplePos = Vec4Add(frag.samplePos, frag.deltaDirFast)]
    /\ UNCHANGED <<pc, hdr, opts, nv>>

\* fragRenderShader 149, 152-159
OverlayFastEnd ==
    /\ pc = "overlayFast" /\ IsRender
    /\ \/ frag.samplePos.a > frag.len
       \/ Above001(Texture(frag.overlay, frag.samplePos.xyz).a)
    /\ IF frag.samplePos.a > frag.len
       THEN /\ frag' = [frag EXCEPT !.outcome = "returned"]
            /\ pc' = "done"
       ELSE LET backedUp == Vec4Sub(frag.samplePos, frag.deltaDirFast)
            IN  /\ frag' = [frag EXCEPT
                      !.backedUp = backedUp,
                      !.overFarthest = frag.len,
                      !.colAcc = ZeroColor,
                      !.samplePos =
                          Vec4Add(backedUp, Jitter(frag.deltaDir, frag.ran))]
                /\ pc' = "overlayPrecise"
    /\ UNCHANGED <<hdr, opts, nv>>

\* fragRenderShader 160-170: one sample of the overlay compositing loop
OverlayStep ==
    /\ pc = "overlayPrecise"
    /\ frag.samplePos.a <= frag.len
    /\ LET colorSample == Texture(frag.overlay, frag.samplePos.xyz)
           advanced == Vec4Add(frag.samplePos, frag.deltaDir)
           f == CompositeOverlay([frag EXCEPT !.colorSample = colorSample,
                                              !.samplePos = advanced],
                                 colorSample, advanced)
       IN  /\ frag' = f
           /\ pc' = IF ~Below001(colorSample.a)
                       /\ AboveEarlyTermination(f.colAcc.a)
                    THEN "overlayComposited" ELSE "overlayPrecise"
    /\ UNCHANGED <<hdr, opts, nv>>

\* fragRenderShader 171-181.  fColor.a is the larger alpha.  The colour
\* is mix(fColor.rgb, colAcc.rgb, overMix), kept unevaluated in
\* overlayMix: overMix is colAcc.a, or 1 under a transparent base, or
\* colAcc.a attenuated by fColor.a * pow(dx / 1.73, 0.3)
Mix ==
    /\ \/ pc = "overlayComposited"
       \/ pc = "overlayPrecise" /\ frag.samplePos.a > frag.len
    /\ LET overlayAlpha == frag.colAcc.a * 19 * ColorOne
           overMix ==
               IF frag.fColor.a <= 0
               THEN [factor |-> ColorOne, dx |-> 0]
               ELSE IF frag.overFarthest > frag.backNearest
               THEN [factor |-> frag.colAcc.a,
                     dx |-> frag.overFarthest - frag.backNearest]
               ELSE [factor |-> frag.colAcc.a, dx |-> 0]
       IN  frag' = [frag EXCEPT
                      !.overlayMix = <<[rgb |-> frag.colAcc.rgb,
                                        overMix |-> overMix]>>,
                      !.fColor.a = Max2(frag.fColor.a, overlayAlpha),
                      !.outcome = "returned"]
    /\ pc' = "done"
    /\ UNCHANGED <<hdr, opts, nv>>

\* the picking shader's fColor: a position in position units and the
\* object id in 1/255
PickColor(xyz, id) == [rgb |-> xyz, a |-> id % 256]

\* fragVolumePickingShader 574-581: one sample of the primary volume
PickFastStep ==
    /\ pc = "fast" /\ IsPicking
    /\ frag.samplePos.a <= frag.len
    /\ IF Above001(Texture(frag.volume, frag.samplePos.xyz).a)
       THEN /\ frag' = [frag EXCEPT
                          !.fColor = PickColor(frag.samplePos.xyz, frag.id),
                          !.written = TRUE,
                          !.outcome = "returned"]
            /\ pc' = "done"
       ELSE /\ frag' = [frag EXCEPT !.samplePos =
                          Vec4Add(frag.samplePos, frag.deltaDirFast)]
            /\ pc' = "fast"
    /\ UNCHANGED <<hdr, opts, nv>>

\* fragVolumePickingShader 585-589: no hit on the primary volume
PickFastEnd ==
    /\ pc = "fast" /\ IsPicking
    /\ frag.samplePos.a > frag.len
    /\ IF frag.overlays < 1
       THEN /\ frag' = [frag EXCEPT !.outcome = "discarded"]
            /\ pc' = "done"
       ELSE /\ frag' = [frag EXCEPT !.len = frag.lenNoClip,
                                    !.samplePos = Vec4(frag.vColor, 0)]
            /\ pc' = "overlayFast"
    /\ UNCHANGED <<hdr, opts, nv>>

\* fragVolumePickingShader 593-597
PickOverlayStep ==
    /\ pc = "overlayFast" /\ IsPicking
    /\ frag.samplePos.a <= frag.len
    /\ ~Above001(Texture(frag.overlay, frag.samplePos.xyz).a)
    /\ frag' = [frag EXCEPT
                  !.samplePos = Vec4Add(frag.samplePos, frag.deltaDirFast)]
    /\ UNCHANGED <<pc, hdr, opts, nv>>

\* fragVolumePickingShader 595, 598-599
PickOverlayEnd ==
    /\ pc = "overlayFast" /\ IsPicking
    /\ \/ frag.samplePos.a > frag.len
       \/ Above001(Texture(frag.overlay, frag.samplePos.xyz).a)
    /\ IF frag.samplePos.a > frag.len
       THEN \E c \in UnwrittenColors :
               frag' = [frag EXCEPT !.fColor = c, !.outcome = "returned"]
       ELSE frag' = [frag EXCEPT !.fColor = PickColor(frag.vColor, frag.id),
                                 !.written = TRUE,
                                 !.outcome = "returned"]
    /\ pc' = "done"
    /\ UNCHANGED <<hdr, opts, nv>>

----------------------------------------------------------------------------
(* The invocations of the shader specification *)

Clear == [rgb |-> <<0, 0, 0>>, a |-> 0]
Ghost == [rgb |-> <<ColorOne, ColorOne, ColorOne>>, a |-> 0]
HalfRed == [rgb |-> <<ColorOne, 0, 0>>, a |-> ColorOne \div 2]
HalfBlue == [rgb |-> <<0, 0, ColorOne>>, a |-> ColorOne \div 2]
SolidGreen == [rgb |-> <<0, ColorOne, 0>>, a |-> ColorOne]

Slices == 0..(MaxSlices - 1)

VolumeTextures == [Slices -> {Clear, Ghost, HalfRed, SolidGreen}]

OverlayTextures ==
    { [k \in Slices |-> IF k = j THEN c ELSE Ghost] :
        j \in Slices, c \in {Ghost, HalfBlue, SolidGreen} }

\* a ray into the front face along +z, one along -z, one along +x inside
\* the first slice, and a fragment of the far face (a ray of length 0)
Rays ==
    { [vColor |-> <<PosHalf, PosHalf, 0>>, rayDir |-> <<0, 0, 1>>],
      [vColor |-> <<PosHalf, PosHalf, PosOne>>, rayDir |-> <<0, 0, -1>>],
      [vColor |-> <<0, PosHalf, StepUnits \div 2>>, rayDir |-> <<1, 0, 0>>],
      [vColor |-> <<PosHalf, PosHalf, PosOne>>, rayDir |-> <<0, 0, 1>>] }

ClipNormals == {<<x, y, z>> : x \in -1..1, y \in -1..1, z \in -1..1}

ClipDisabled == [xyz |-> <<0, 0, 0>>, a |-> 2 * PosOne]

ClipPlanes ==
    { [xyz |-> n, a |-> a] :
        n \in ClipNormals,
        a \in {2 * PosOne, PosOne + 1, 0, StepUnits \div 2, -StepUnits} }

MkFrag(shader, ray, clipPlane, volume, overlay, overlays, backOpacity, ran, id) ==
    [shader |-> shader, vColor |-> ray.vColor, rayDir |-> ray.rayDir,
     volScale |-> <<1, 1, 1>>,
     texVox |-> <<MaxSlices, MaxSlices, MaxSlices>>,
     clipPlane |-> clipPlane, volume |-> volume, overlay |-> overlay,
     overlays |-> overlays, backOpacity |-> backOpacity, ran |-> ran,
     id |-> id] @@ FragLocals

\* every clip plane, in both shaders
ClipInvocations ==
    { MkFrag(s, r, c, [k \in Slices |-> v], [k \in Slices |-> Ghost], o,
             ColorOne, 0, 3) :
        s \in {"render", "picking"}, r \in Rays, c \in ClipPlanes,
        v \in {Clear, HalfRed}, o \in {0, 1} }

\* every volume texture, composited
RenderInvocations ==
    { MkFrag("render", r, c, v, w, o, b, j, 3) :
        r \in Rays,
        c \in {ClipDisabled, [xyz |-> <<0, 0, 1>>, a |-> 0]},
        v \in VolumeTextures, w \in OverlayTextures, o \in {0, 1},
        b \in {0, ColorOne \div 2, ColorOne}, j \in {0, 1} }

\* every volume texture, picked
PickInvocations ==
    { MkFrag("picking", r, c, v, w, o, ColorOne, 0, id) :
        r \in Rays,
        c \in {ClipDisabled, [xyz |-> <<0, 0, 1>>, a |-> 0]},
        v \in VolumeTextures, w \in OverlayTextures, o \in {0, 1},
        id \in {3, 258} }

NoImage == [none |-> TRUE]

InitRender ==
    /\ pc = "main"
    /\ frag \in ClipInvocations \cup RenderInvocations \cup PickInvocations
    /\ hdr = NoImage /\ opts = NoImage /\ nv = NoImage

NextRender ==
    \/ Setup
    \/ FastStep \/ FastEnd \/ PreciseStep \/ BaseDone
    \/ OverlayFastStep \/ OverlayFastEnd \/ OverlayStep \/ Mix
    \/ PickFastStep \/ PickFastEnd \/ PickOverlayStep \/ PickOverlayEnd

SpecRender == InitRender /\ [][NextRender]_vars

----------------------------------------------------------------------------
(* Claims about the fragment shaders *)

\* C8: in the render and in the picking shader, applyClip called with
\* clipPlane.a > 1.0 leaves samplePos (the ray start at distance 0) and
\* len (the unclipped length) exactly as they were, whatever the ray
\* direction and the plane normal.
C8_ClipDisabled ==
    [][(Setup /\ pc' = "fast" /\ frag.clipPlane.a > PosOne) =>
          /\ frag'.samplePos = Vec4(frag.vColor, 0)
          /\ frag'.len = frag'.lenNoClip]_vars

\* the picking shader has just clipped a ray against a plane that faces
\* it, with an offset just above 1.0
C8_Witness ==
    /\ pc = "fast" /\ IsPicking
    /\ frag.clipPlane.a = PosOne + 1
    /\ Dot(frag.dir, frag.clipPlane.xyz) > 0
    /\ frag.lenNoClip = PosOne
    /\ frag.samplePos = Vec4(frag.vColor, 0)
    /\ frag.len = frag.lenNoClip

\* C9: in the base and in the overlay compositing loop a sample of alpha 0
\* changes neither colAcc nor firstHit, backNearest or overFarthest.
C9_ZeroAlphaSample ==
    [][((PreciseStep \/ OverlayStep) /\ frag'.colorSample.a = 0) =>
          /\ frag'.colAcc = frag.colAcc
          /\ frag'.firstHit = frag.firstHit
          /\ frag'.backNearest = frag.backNearest
          /\ frag'.overFarthest = frag.overFarthest]_vars

\* the base loop has read a zero-alpha sample that carries colour after it
\* had accumulated a visible one
C9_Witness ==
    /\ pc = "precise"
    /\ frag.colorSample = Ghost
    /\ frag.colAcc.a > 0
    /\ frag.firstHit # ZeroVec4

OpaqueSample == PreciseStep /\ frag'.colorSample.a = ColorOne

\* C10 as stated: a fully opaque sample anywhere along the ray ends the
\* base loop with accumulated alpha 1 and the accumulated colour equal to
\* the sample's colour.
C10_Original ==
    [][OpaqueSample =>
          /\ pc' = "composited"
          /\ frag'.colAcc.a = ColorOne
          /\ frag'.colAcc.rgb = frag'.colorSample.rgb]_vars

\* C10: a fully opaque sample ends the base loop with accumulated alpha 1;
\* the accumulated colour is the colour accumulated before it plus the
\* sample's colour weighted by the transparency accumulated before it,
\* which is the sample's colour when nothing was accumulated before it.
C10_OpaqueSample ==
    [][OpaqueSample =>
          /\ pc' = "composited"
          /\ frag'.colAcc.a = ColorOne
          /\ \A i \in 1..3 :
                ColorOne * frag'.colAcc.rgb[i] =
                    ColorOne * frag.colAcc.rgb[i]
                      + (ColorOne - frag.colAcc.a) * frag'.colorSample.rgb[i]
          /\ (frag.colAcc.a = 0 =>
                frag'.colAcc.rgb = frag'.colorSample.rgb)]_vars

\* an opaque green sample composited behind a half transparent red one
C10_Witness ==
    /\ pc = "composited"
    /\ frag.colorSample = SolidGreen
    /\ frag.colAcc.a = ColorOne
    /\ frag.colAcc.rgb[1] > 0
    /\ frag.colAcc.rgb[2] > 0

\* C11: the alpha the base pass writes (the accumulated alpha divided by
\* the early-termination threshold 0.95 and multiplied by backOpacity)
\* lies in [0, 1], for samples with alpha in [0, 1] and backOpacity in
\* [0, 1].
C11_FinalAlphaInRange ==
    [][BaseDone => (frag'.fColor.a >= 0 /\ frag'.fColor.a <= OutOne)]_vars

\* The base pass never writes more than 1 / 0.95 = 20/19, and with
\* backOpacity at most 0.95 it stays within [0, 1]: only an accumulated
\* alpha above the threshold, kept undivided, exceeds the range.
FinalAlphaAtMostTwentyNineteenths ==
    [][BaseDone => (frag'.fColor.a >= 0 /\ 19 * frag'.fColor.a <= 20 * OutOne)]_vars

FinalAlphaAboveOneOnlyPastThreshold ==
    [][(BaseDone /\ frag'.fColor.a > OutOne) =>
          AboveEarlyTermination(frag.colAcc.a)]_vars

PickMiss == pc = "fast" /\ IsPicking /\ frag.samplePos.a > frag.len

OverlayMiss == pc = "overlayFast" /\ IsPicking /\ frag.samplePos.a > frag.len

PickHit ==
    /\ pc = "fast" /\ IsPicking /\ frag.samplePos.a <= frag.len
    /\ Above001(Texture(frag.volume, frag.samplePos.xyz).a)

\* C13: in the picking shader a ray that misses the primary volume is
\* discarded, both with the overlay disabled and with the overlay enabled
\* and missed as well; a hit on the primary volume writes the sample
\* position with (id & 255)/255 and stops.
C13_PickingDiscardsOrWrites ==
    [][/\ (PickFastEnd /\ frag.overlays < 1) =>
              (frag'.outcome = "discarded" /\ pc' = "done")
       /\ (PickOverlayEnd /\ OverlayMiss) =>
              (frag'.outcome = "discarded" /\ pc' = "done")
       /\ (PickFastStep /\ PickHit) =>
              /\ frag'.fColor = PickColor(frag.samplePos.xyz, frag.id)
              /\ frag'.written /\ pc' = "done"]_vars

\* a miss with the overlay disabled is discarded
PickMissOverlayDisabledDiscards ==
    [][(PickFastEnd /\ frag.overlays < 1) =>
          (frag'.outcome = "discarded" /\ ~frag'.written /\ pc' = "done")]_vars

\* a hit on the primary volume writes the position and the id, and stops
PickHitWritesPositionAndId ==
    [][(PickFastStep /\ PickHit) =>
          /\ frag'.fColor = PickColor(frag.samplePos.xyz, frag.id)
          /\ frag'.written /\ pc' = "done"]_vars

\* a miss on both volumes returns: no discard, and fColor never assigned
PickMissOnBothReturnsUnwritten ==
    [][(PickOverlayEnd /\ OverlayMiss) =>
          (frag'.outcome = "returned" /\ ~frag'.written /\ pc' = "done")]_vars

----------------------------------------------------------------------------
(* Claims about the order of the voxels *)

Reorderings(D) == { p \in [D -> D] : \A i, j \in D : p[i] = p[j] => i = j }

Permuted(img, p) == [i \in DOMAIN img |-> img[p[i]]]

RangeOf(r) == <<r.cal_min, r.cal_max, r.global_min, r.global_max>>

\* the buffers whose reorderings are enumerated
SmallBuffer == Cardinality(DOMAIN nv.img) <= MaxVox

\* C14: the range is independent of the order of the voxels: calMinMax
\* on any permutation of the buffer, with the same header and options,
\* gives the same cal_min, cal_max, global_min and global_max.
C14_OrderIndependent ==
    (pc = "calibrated" /\ SmallBuffer) =>
        \A p \in Reorderings(DOMAIN nv.img) :
            RangeOf(calMinMax(Permuted(nv.img, p), hdr, opts, Unassigned))
                = RangeOf(nv)

\* the observed minimum and maximum are the same for every order that
\* keeps the first voxel in its place
SameScanWhenFirstVoxelStays ==
    (pc = "calibrated" /\ SmallBuffer) =>
        \A p \in Reorderings(DOMAIN nv.img) :
            p[0] = 0 =>
              /\ ScanMin(Permuted(nv.img, p), opts.ignoreZeroVoxels)
                   = ScanMin(nv.img, opts.ignoreZeroVoxels)
              /\ ScanMax(Permuted(nv.img, p), opts.ignoreZeroVoxels)
                   = ScanMax(nv.img, opts.ignoreZeroVoxels)

CountedValues == { nv.img[i] : i \in Counted(nv.img, opts.ignoreZeroVoxels) }

ObservedRange ==
    <<intensityRaw2Scaled(hdr, Thousandths(SetMin(CountedValues))),
      intensityRaw2Scaled(hdr, Thousandths(SetMax(CountedValues)))>>

\* C20: NaN voxels never influence the observed minimum and maximum, and
\* zero voxels are left out of them exactly when ignoreZeroVoxels is set:
\* global_min and global_max are the scaled minimum and maximum over the
\* voxels that are neither NaN nor an ignored zero, wherever the NaN and
\* zero voxels stand in the buffer.
C20_ScanSkipsNaNAndIgnoredZeros ==
    (ScanReached /\ CountedValues # {}) =>
        <<nv.global_min, nv.global_max>> = ObservedRange

\* the scan is right whenever the first voxel is one it counts
ScanRightWhenFirstVoxelCounted ==
    (ScanReached /\ 0 \in Counted(nv.img, opts.ignoreZeroVoxels)) =>
        <<nv.global_min, nv.global_max>> = ObservedRange

\* a NaN at index 0 makes both ends of the range NaN
FirstVoxelNaNGivesNaNRange ==
    (ScanReached /\ IsNaN(nv.img[0])) =>
        (IsNaN(nv.global_min) /\ IsNaN(nv.global_max))

----------------------------------------------------------------------------
(* Loading an image (nvimage.js 32-241, 706-733) and its life afterwards   *)
(* (clone 742-750, zeroImage 758-760, zerosLike 819-823)                   *)
(*                                                                         *)
(* opts holds the constructor's arguments, which are also the option       *)
(* fields of the object; dataBuffer is held as the voxel values the typed  *)
(* array view of imgRaw yields.                                            *)

DT_NONE == 0
DT_BINARY == 1
DT_UNSIGNED_CHAR == 2
DT_SIGNED_SHORT == 4
DT_SIGNED_INT == 8
DT_FLOAT == 16
DT_COMPLEX == 32
DT_DOUBLE == 64
DT_RGB == 128
DT_ALL == 255
DT_INT8 == 256
DT_UINT16 == 512
DT_UINT32 == 768
DT_INT64 == 1024
DT_UINT64 == 1280
DT_FLOAT128 == 1536
DT_COMPLEX128 == 1792
DT_COMPLEX256 == 2048
DT_RGBA32 == 2304

\* the case labels of the switch at lines 185-237
HandledDatatypes ==
    { DT_UNSIGNED_CHAR, DT_SIGNED_SHORT, DT_FLOAT, DT_DOUBLE, DT_RGB,
      DT_UINT16, DT_RGBA32, DT_INT8, DT_UINT32, DT_SIGNED_INT, DT_INT64 }

\* new TypedArray(vx) filled by "for (i = 0; i < vx - 1; i++)": every
\* element but the last is copied, the last keeps the initial 0
Widened(raw) ==
    LET vx == Cardinality(DOMAIN raw)
    IN  [i \in DOMAIN raw |-> IF i < vx - 1 THEN raw[i] ELSE 0]

Stored(type, img, code) ==
    [thrown |-> FALSE, imgType |-> type, img |-> img, datatypeCode |-> code]

Thrown(code) ==
    [thrown |-> TRUE, imgType |-> "", img |-> <<>>, datatypeCode |-> code]

\* the switch at lines 185-237
readImage_Lenient(code, raw) ==
    IF code \in HandledDatatypes
    THEN Stored("Float64Array", raw, code)
    ELSE Stored("Uint8Array", raw, code)

readImage(code, raw) ==
    CASE code = DT_UNSIGNED_CHAR -> Stored("Uint8Array", raw, code)
      [] code = DT_SIGNED_SHORT -> Stored("Int16Array", raw, code)
      [] code = DT_FLOAT -> Stored("Float32Array", raw, code)
      [] code = DT_DOUBLE -> Stored("Float64Array", raw, code)
      [] code = DT_RGB -> Stored("Uint8Array", raw, code)
      [] code = DT_UINT16 -> Stored("Uint16Array", raw, code)
      [] code = DT_RGBA32 -> Stored("Uint8Array", raw, code)
      [] code = DT_INT8 ->
            Stored("Int16Array", Widened(raw), DT_SIGNED_SHORT)
      [] code = DT_UINT32 -> Stored("Float64Array", Widened(raw), DT_DOUBLE)
      [] code = DT_SIGNED_INT ->
            Stored("Float64Array", Widened(raw), DT_DOUBLE)
      [] code = DT_INT64 -> Stored("Float64Array", Widened(raw), DT_DOUBLE)
      [] OTHER -> Thrown(code)

\* the defaults of the constructor's parameters (lines 33-42)
DefaultOptions ==
    [dataBuffer |-> <<>>, colorMap |-> "gray", trustCalMinMax |-> TRUE,
     percentileFrac |-> 2, ignoreZeroVoxels |-> FALSE,
     useQFormNotSForm |-> FALSE]

\* an object on which neither the image nor a derived field is set
NewImage == [thrown |-> FALSE, result |-> "pending"] @@ Unassigned

\* lines 79-177: the header, its intensity scaling and its affine
ReadHeader ==
    /\ pc = "load"
    /\ hdr' = ResolvedHeader(NormalizedIntensity(hdr), opts.useQFormNotSForm)
    /\ pc' = "readImage"
    /\ UNCHANGED <<opts, nv, frag>>

\* lines 178-237: the voxels, or the exception of the default case
ReadImage ==
    /\ pc = "readImage"
    /\ LET r == readImage(hdr.datatypeCode, opts.dataBuffer)
       IN  IF r.thrown
           THEN /\ nv' = [nv EXCEPT !.thrown = TRUE]
                /\ hdr' = hdr
                /\ pc' = "thrown"
           ELSE /\ nv' = [img |-> r.img, imgType |-> r.imgType] @@ nv
                /\ hdr' = [hdr EXCEPT !.datatypeCode = r.datatypeCode]
                /\ pc' = "canonicalize"
    /\ UNCHANGED <<opts, frag>>

\* line 239
ImageCalculateRAS ==
    /\ pc = "canonicalize"
    /\ nv' = RASOf(hdr) @@ nv
    /\ pc' = "calibrate"
    /\ UNCHANGED <<hdr, opts, frag>>

\* line 240
ImageCalMinMax ==
    /\ pc = "calibrate"
    /\ nv' = calMinMax(nv.img, hdr, opts, nv) @@ nv
    /\ pc' = "built"
    /\ UNCHANGED <<hdr, opts, frag>>

\* loadFromFile 719-733: the new image, or null when the constructor threw
LoadReturn ==
    /\ pc \in {"built", "thrown"}
    /\ nv' = [nv EXCEPT !.result = IF pc = "thrown" THEN "null" ELSE "image"]
    /\ pc' = IF pc = "thrown" THEN "failed" ELSE "ready"
    /\ UNCHANGED <<hdr, opts, frag>>

\* clone (742-750): a new object with the default options, the same id,
\* a copy of the header and of the voxels, canonicalized and calibrated
CloneOf(h, image) ==
    LET copy == [img |-> image.img, imgType |-> image.imgType] @@ NewImage
        framed == RASOf(h) @@ copy
    IN  [calMinMax(framed.img, h, DefaultOptions, framed) @@ framed
            EXCEPT !.result = "image"]

\* zeroImage (758-760): img.fill(0)
ZeroImageOf(image) ==
    [image EXCEPT !.img = [i \in DOMAIN image.img |-> 0]]

Clone ==
    /\ pc = "ready"
    /\ nv' = CloneOf(hdr, nv)
    /\ opts' = DefaultOptions
    /\ UNCHANGED <<pc, hdr, frag>>

ZeroImage ==
    /\ pc = "ready"
    /\ nv' = ZeroImageOf(nv)
    /\ UNCHANGED <<pc, hdr, opts, frag>>

\* zerosLike (819-823)
ZerosLike ==
    /\ pc = "ready"
    /\ nv' = ZeroImageOf(CloneOf(hdr, nv))
    /\ opts' = DefaultOptions
    /\ UNCHANGED <<pc, hdr, frag>>

----------------------------------------------------------------------------
(* The files of the image specification *)

MaxRaw == 3

AllDatatypes ==
    { DT_NONE, DT_BINARY, DT_UNSIGNED_CHAR, DT_SIGNED_SHORT, DT_SIGNED_INT,
      DT_FLOAT, DT_COMPLEX, DT_DOUBLE, DT_RGB, DT_ALL, DT_INT8, DT_UINT16,
      DT_UINT32, DT_INT64, DT_UINT64, DT_FLOAT128, DT_COMPLEX128,
      DT_COMPLEX256, DT_RGBA32 }

RawBuffers ==
    UNION { {ArrayOf(s) : s \in [1..n -> {0, 1, 3}]} : n \in 1..MaxRaw }

\* floating point files may hold NaN
FloatBuffers == { ArrayOf(<<NaN, 1>>), ArrayOf(<<3, NaN>>) }

Files ==
    { [datatypeCode |-> c, dataBuffer |-> b] :
        c \in AllDatatypes \cap HandledDatatypes, b \in RawBuffers }
    \cup { [datatypeCode |-> c, dataBuffer |-> b] :
             c \in {DT_FLOAT, DT_DOUBLE}, b \in FloatBuffers }
    \cup { [datatypeCode |-> c, dataBuffer |-> ArrayOf(<<1, 3>>)] :
             c \in AllDatatypes \ HandledDatatypes }

MkImageHdr(code, scaling, cal) ==
    [datatypeCode |-> code] @@ MkCalHdr(scaling[1], scaling[2], cal)

\* scaling, header range, trustCalMinMax, ignoreZeroVoxels
ImageSettings ==
    { <<<<1, 0>>, <<0, 0>>, TRUE, FALSE>>,
      <<<<1, 0>>, <<0, 0>>, TRUE, TRUE>>,
      <<<<2, 3>>, <<0, 0>>, TRUE, FALSE>>,
      <<<<1, 0>>, <<1, 2>>, TRUE, FALSE>>,
      <<<<1, 0>>, <<1, 2>>, FALSE, TRUE>>,
      <<<<2, 3>>, <<1, 2>>, FALSE, FALSE>> }

InitImage ==
    /\ pc = "load"
    /\ \E f \in Files, s \in ImageSettings :
          /\ hdr = MkImageHdr(f.datatypeCode, s[1], s[2])
          /\ opts = [DefaultOptions EXCEPT
                       !.dataBuffer = f.dataBuffer,
                       !.trustCalMinMax = s[3],
                       !.percentileFrac = 50,
                       !.ignoreZeroVoxels = s[4]]
    /\ nv = NewImage
    /\ frag = NoFrag

NextImage ==
    \/ ReadHeader \/ ReadImage \/ ImageCalculateRAS \/ ImageCalMinMax
    \/ LoadReturn
    \/ Clone \/ ZeroImage \/ ZerosLike

SpecImage == InitImage /\ [][NextImage]_vars

----------------------------------------------------------------------------
(* Claims about loading *)

SwitchPassed == pc \notin {"load", "readImage"}

\* the datatype code of the file (the switch rewrites the header's code
\* only to a handled one)
Unsupported == hdr.datatypeCode \notin HandledDatatypes

\* C12: for a datatype code that is not handled the constructor throws
\* before calculateRAS and calMinMax run, so the object never gets a
\* canonical frame or a calibration range, and loadFromFile returns null.
C12_UnsupportedDatatype ==
    (Unsupported /\ SwitchPassed) =>
        /\ pc \in {"thrown", "failed"}
        /\ nv.thrown
        /\ "dimsRAS" \notin DOMAIN nv /\ "matRAS" \notin DOMAIN nv
        /\ nv.cal_min = Undefined /\ nv.cal_max = Undefined
        /\ nv.result # "image"
        /\ (pc = "failed" => nv.result = "null")

\* loadFromFile has returned null for a file of complex voxels
C12_Witness ==
    /\ pc = "failed"
    /\ hdr.datatypeCode = DT_COMPLEX
    /\ nv.thrown
    /\ nv.result = "null"

----------------------------------------------------------------------------
(* Claims about the stored voxels and the life of an image *)

SubByteAnd64BitTypes == {DT_BINARY, DT_INT64, DT_UINT64}

SupportedArrays ==
    {"Uint8Array", "Int16Array", "Uint16Array", "Float32Array", "Float64Array"}

\* C15: for DT_BINARY, DT_INT64 and DT_UINT64 the constructor succeeds and
\* stores img in a supported wider typed array.
C15_WidenedTypes ==
    [][(ReadImage /\ hdr.datatypeCode \in SubByteAnd64BitTypes) =>
          /\ pc' = "canonicalize"
          /\ ~nv'.thrown
          /\ nv'.imgType \in SupportedArrays]_vars

\* of the three, only DT_INT64 has a case label: it is stored as doubles
OnlyInt64IsWidened ==
    [][(ReadImage /\ hdr.datatypeCode \in SubByteAnd64BitTypes) =>
          IF hdr.datatypeCode = DT_INT64
          THEN /\ pc' = "canonicalize"
               /\ nv'.imgType = "Float64Array"
               /\ hdr'.datatypeCode = DT_DOUBLE
          ELSE pc' = "thrown" /\ nv'.thrown]_vars

CalibrationOf(r) ==
    <<r.cal_min, r.cal_max, r.robust_min, r.robust_max,
      r.global_min, r.global_max>>

\* what calMinMax yields on the current voxels of the image
FreshCalibration == CalibrationOf(calMinMax(nv.img, hdr, opts, nv))

\* C16: after any sequence of construct, clone, zeroImage and zerosLike
\* the stored cal_min, cal_max, robust_min, robust_max, global_min and
\* global_max equal what calMinMax yields on the current voxel buffer.
C16_CalibrationFollowsVoxels ==
    pc = "ready" => CalibrationOf(nv) = FreshCalibration

\* construction and clone leave a calibration of the current voxels
CalibratedAfterConstructAndClone ==
    [][(LoadReturn \/ Clone) =>
          (pc' = "ready" =>
              CalibrationOf(nv') =
                  CalibrationOf(calMinMax(nv'.img, hdr', opts', nv')))]_vars

\* zeroImage changes the voxels and nothing else
ZeroImageKeepsCalibration ==
    [][ZeroImage =>
          /\ CalibrationOf(nv') = CalibrationOf(nv)
          /\ \A i \in DOMAIN nv'.img : nv'.img[i] = 0]_vars

----------------------------------------------------------------------------
(* Claims about the choice between the matrix form and the quaternion *)

\* the header as parsed, before the constructor touched it
Parsed == opts.hdr0

QuaternionCalledFor ==
    \/ opts.useQFormNotSForm
    \/ ~WellFormed(Parsed.affine)
    \/ Parsed.qform_code > Parsed.sform_code

\* C17: hdr.affine is derived from the quaternion exactly when
\* useQFormNotSForm is set, or the matrix-form affine is malformed, or
\* qform_code > sform_code; in every other case, equal codes included,
\* the matrix-form affine is left entry for entry as parsed.
C17_QuaternionIffCalledFor ==
    Resolved =>
        /\ nv.usedQForm <=> QuaternionCalledFor
        /\ (QuaternionCalledFor /\ ~nv.defective) =>
               hdr.affine = QuaternAffine(Parsed)
        /\ ~QuaternionCalledFor => hdr.affine = Parsed.affine

\* equal codes, a well-formed matrix form and a quaternion that would have
\* given another affine: the matrix form has been kept
C17_Witness ==
    /\ Resolved
    /\ Parsed.qform_code = 1 /\ Parsed.sform_code = 1
    /\ ~opts.useQFormNotSForm
    /\ WellFormed(Parsed.affine)
    /\ WellFormed(QuaternAffine(Parsed))
    /\ QuaternAffine(Parsed) # Parsed.affine
    /\ hdr.affine = Parsed.affine
    /\ ~nv.usedQForm

\* the quaternion has replaced a well-formed matrix form of a lower code
QuaternionChosenByCode ==
    /\ Resolved
    /\ Parsed.qform_code > Parsed.sform_code
    /\ ~opts.useQFormNotSForm
    /\ WellFormed(Parsed.affine)
    /\ hdr.affine = QuaternAffine(Parsed)
    /\ hdr.affine # Parsed.affine

\* b^2 + c^2 + d^2 > 1, the components being held in halves
OverUnit(h) ==
    h.quatern_b * h.quatern_b + h.quatern_c * h.quatern_c
        + h.quatern_d * h.quatern_d > 4

\* nothing but the quaternion can bring a NaN or an empty row or column
\* into the derived affine
PlainGeometry(h) ==
    /\ \A k \in 1..3 : IsFinite(h.pixDims[k]) /\ h.pixDims[k] # 0
    /\ \A x \in {h.qoffset_x, h.qoffset_y, h.qoffset_z} : ~IsNaN(x)

\* C18: in the quaternion branch a = sqrt(max(0, 1 - b^2 - c^2 - d^2)):
\* for b^2 + c^2 + d^2 > 1 the value a is 0, not NaN, so the derived
\* affine has no NaN on that account and is not replaced by the fallback.
C18_ClampedQuaternionA ==
    (Resolved /\ nv.usedQForm /\ OverUnit(Parsed)) =>
        /\ quatern_a(Parsed) = 0
        /\ PlainGeometry(Parsed) => ~nv.defective

\* a quaternion with b^2 + c^2 + d^2 > 1 gives a = NaN, and the image
\* always ends on the diagonal fallback
OverUnitQuaternionFallsBack ==
    (Resolved /\ nv.usedQForm /\ OverUnit(Parsed)) =>
        /\ IsNaN(quatern_a(Parsed))
        /\ nv.defective
        /\ hdr.affine = DiagAffine(hdr.pixDims[1], hdr.pixDims[2],
                                   hdr.pixDims[3])

----------------------------------------------------------------------------
(* Claims about the diagonal fallback *)

SpacingOrOne(x) == IF IsFinite(x) /\ x # 0 THEN x ELSE 1

\* C19: when the affine is still malformed after the quaternion branch,
\* the fallback is diag(x, y, z) with zero translation, x, y, z being the
\* pixDims entries with 1.0 in place of every NaN, infinite or zero one;
\* so the diagonal is finite and non-zero, and pixDims[1..3] are
\* rewritten to the same values.
C19_FallbackSpacingFinite ==
    (Resolved /\ nv.defective) =>
        /\ hdr.affine = DiagAffine(SpacingOrOne(Parsed.pixDims[1]),
                                   SpacingOrOne(Parsed.pixDims[2]),
                                   SpacingOrOne(Parsed.pixDims[3]))
        /\ \A k \in 1..3 :
              /\ IsFinite(hdr.affine[k - 1][k - 1])
              /\ hdr.affine[k - 1][k - 1] # 0
              /\ hdr.pixDims[k] = SpacingOrOne(Parsed.pixDims[k])

\* the fallback is the diagonal of the rewritten pixDims, in which NaN
\* and zero have become 1 and every other value, infinite ones included,
\* is kept
FallbackKeepsInfiniteSpacing ==
    (Resolved /\ nv.defective) =>
        /\ hdr.affine = DiagAffine(hdr.pixDims[1], hdr.pixDims[2],
                                   hdr.pixDims[3])
        /\ \A k \in 1..3 :
              hdr.pixDims[k] =
                  IF IsNaN(Parsed.pixDims[k]) \/ Parsed.pixDims[k] = 0
                  THEN 1 ELSE Parsed.pixDims[k]

----------------------------------------------------------------------------
(* Claims about the fields calMinMax leaves on the image *)

RangeFields ==
    {"cal_min", "cal_max", "robust_min", "robust_max",
     "global_min", "global_max"}

RobustIsCal == nv.robust_min = nv.cal_min /\ nv.robust_max = nv.cal_max

\* C21: every return path of calMinMax (trusted header, colour map with
\* fixed bounds, no variability, histogram) leaves cal_min, cal_max,
\* robust_min, robust_max, global_min and global_max set on the image,
\* with robust_min = cal_min and robust_max = cal_max.
C21_AllSixFieldsSet ==
    Calibrated =>
        /\ \A f \in RangeFields : nv[f] # Undefined
        /\ RobustIsCal

\* the header path and the two scan paths set all six fields
OtherPathsSetAllSix ==
    (Calibrated /\ nv.path # "colormap") =>
        /\ \A f \in RangeFields : nv[f] # Undefined
        /\ RobustIsCal

\* the colour-map path sets cal and robust and leaves global_min and
\* global_max as they were: never assigned on a new image
ColorMapPathLeavesGlobalUnset ==
    (Calibrated /\ nv.path = "colormap") =>
        /\ \A f \in RangeFields \ {"global_min", "global_max"} :
              nv[f] # Undefined
        /\ RobustIsCal
        /\ nv.global_min = Undefined /\ nv.global_max = Undefined

----------------------------------------------------------------------------
(* Claims about the start of the precise pass *)

EntersPrecise == FastEnd /\ pc' = "precise"

EntersOverlayPrecise == OverlayFastEnd /\ pc' = "overlayPrecise"

\* C22: after the fast pass the sample position is backed up by one fast
\* step and clamped to the ray start: before the jitter is added the
\* traversal distance samplePos.a is >= 0, also when the hit was found at
\* the very first fast sample; the same holds for the overlay pass.
C22_BackedUpClampedToStart ==
    [][(EntersPrecise \/ EntersOverlayPrecise) => frag'.backedUp.a >= 0]_vars

\* the position before the jitter is always one fast step behind the
\* position the fast pass stopped at: nothing clamps it
BackedUpByOneFastStep ==
    [][(EntersPrecise \/ EntersOverlayPrecise) =>
          /\ frag'.backedUp = Vec4Sub(frag.samplePos, frag.deltaDirFast)
          /\ frag'.samplePos =
                 Vec4Add(frag'.backedUp, Jitter(frag.deltaDir, frag.ran))]_vars

\* a hit at the first sample of an unclipped ray starts the precise pass
\* one fast step before the ray start
FirstSampleHitStartsBehind ==
    [][((EntersPrecise \/ EntersOverlayPrecise) /\ frag.samplePos.a = 0) =>
          frag'.backedUp.a = -frag.deltaDirFast.a]_vars

----------------------------------------------------------------------------
(* Claims about firstHit *)

FirstHitSet == frag.firstHit # ZeroVec4

\* the sample PreciseStep is about to read passes the threshold
SamplePasses ==
    /\ pc = "precise" /\ frag.samplePos.a <= frag.len
    /\ ~Below001(Texture(frag.volume, frag.samplePos.xyz).a)

\* C23: in the precise loop firstHit is the position at which the first
\* sample passing the threshold was read from the texture, it is set once
\* and not overwritten by later samples, and gl_FragDepth is computed
\* from it.
C23_FirstHitIsFirstSample ==
    [][/\ (PreciseStep /\ SamplePasses /\ ~FirstHitSet) =>
              frag'.firstHit = frag.samplePos
       /\ (PreciseStep /\ FirstHitSet) => frag'.firstHit = frag.firstHit
       /\ (BaseDone /\ FirstHitSet) => frag'.depthFrom = frag.firstHit.xyz]_vars

\* firstHit is taken after samplePos has been advanced: it lies one
\* precise step past the position the sample was read at
FirstHitIsOneStepPastSample ==
    [][(PreciseStep /\ SamplePasses /\ ~FirstHitSet) =>
          frag'.firstHit = Vec4Add(frag.samplePos, frag.deltaDir)]_vars

\* once set, firstHit is kept, and the depth is computed from it
FirstHitKeptAndUsedForDepth ==
    [][/\ (PreciseStep /\ FirstHitSet) => frag'.firstHit = frag.firstHit
       /\ BaseDone => frag'.depthFrom = frag.firstHit.xyz]_vars

----------------------------------------------------------------------------
(* Claims about the upconverted datatypes *)

WidenedCode(code) == IF code = DT_INT8 THEN DT_SIGNED_SHORT ELSE DT_DOUBLE

WidenedArray(code) == IF code = DT_INT8 THEN "Int16Array" ELSE "Float64Array"

Upconverted == {DT_INT8, DT_UINT32, DT_SIGNED_INT, DT_INT64}

ReadsUpconverted == ReadImage /\ hdr.datatypeCode \in Upconverted

\* C24: for the upconverted datatypes (DT_INT8 to Int16, DT_UINT32,
\* DT_SIGNED_INT and DT_INT64 to Float64) img has as many voxels as the
\* source, img[i] is the source value for every i, the last voxel
\* included, and hdr.datatypeCode is rewritten to the widened type's code.
C24_WideningCopiesEveryVoxel ==
    [][ReadsUpconverted =>
          /\ DOMAIN nv'.img = DOMAIN opts.dataBuffer
          /\ \A i \in DOMAIN opts.dataBuffer : nv'.img[i] = opts.dataBuffer[i]
          /\ hdr'.datatypeCode = WidenedCode(hdr.datatypeCode)]_vars

\* the widening loops stop one voxel early: every voxel but the last is
\* copied, and the last is the 0 the new array was created with
WideningSkipsLastVoxel ==
    [][ReadsUpconverted =>
          LET n == Cardinality(DOMAIN opts.dataBuffer)
          IN  /\ DOMAIN nv'.img = DOMAIN opts.dataBuffer
              /\ \A i \in 0..(n - 2) : nv'.img[i] = opts.dataBuffer[i]
              /\ nv'.img[n - 1] = 0
              /\ nv'.imgType = WidenedArray(hdr.datatypeCode)
              /\ hdr'.datatypeCode = WidenedCode(hdr.datatypeCode)]_vars

----------------------------------------------------------------------------
(* Claims about clone *)

\* C25: clone yields an image equivalent to the original: the same header
\* values, a copy of the voxel buffer, and the same calibration range as
\* the original, whatever the original's colorMap, trustCalMinMax,
\* percentileFrac and ignoreZeroVoxels.
C25_CloneEquivalent ==
    [][Clone =>
          /\ hdr' = hdr
          /\ nv'.img = nv.img /\ nv'.imgType = nv.imgType
          /\ CalibrationOf(nv') = CalibrationOf(nv)]_vars

\* the clone has the header and the voxels of the original, and the
\* calibration calMinMax gives with the constructor's default options
CloneCalibratesWithDefaults ==
    [][Clone =>
          /\ hdr' = hdr
          /\ nv'.img = nv.img /\ nv'.imgType = nv.imgType
          /\ opts' = DefaultOptions
          /\ CalibrationOf(nv') =
                 CalibrationOf(calMinMax(nv.img, hdr, DefaultOptions,
                                         NewImage))]_vars

\* a clone of an image that was built with the default options and not
\* zeroed since has the calibration of the original
CloneOfDefaultImageMatches ==
    [][(Clone /\ opts = DefaultOptions
              /\ CalibrationOf(nv) = FreshCalibration) =>
          CalibrationOf(nv') = CalibrationOf(nv)]_vars

----------------------------------------------------------------------------
(* Claims about the end of the histogram walks *)

ValidBin(k) == k \in 0..(nBins - 1)

\* the voxels the histogram holds in one of its bins
Binned == {i \in DOMAIN BinsBuilt : ValidBin(BinsBuilt[i])}

\* C26: calMinMax terminates for every buffer and every percentileFrac,
\* and at the end of the histogram path lo and hi are valid bin indices
\* in 0..1000, with lo <= hi when percentileFrac <= 0.5.
C26_WalksEndOnValidBins ==
    HistogramPath =>
        /\ ValidBin(nv.lo) /\ ValidBin(nv.hi)
        /\ opts.percentileFrac <= 50 => nv.lo <= nv.hi

\* when the histogram holds at least n2pct voxels both walks end on a
\* bin, the expansion stays within the bins, and lo <= hi up to one half
WalksEndOnBinsWhenEnoughVoxels ==
    (HistogramPath /\ Cardinality(Binned) >= nv.n2pct) =>
        /\ ValidBin(nv.walkLo) /\ ValidBin(nv.walkHi)
        /\ ValidBin(nv.lo) /\ ValidBin(nv.hi)
        /\ nv.lo <= nv.walkLo /\ nv.walkHi <= nv.hi
        /\ opts.percentileFrac <= 50 => nv.lo <= nv.hi

\* when it holds fewer, both walks leave the histogram: the low one ends
\* past the last bin and the high one before the first, and no expansion
\* follows
WalksRunOffWhenTooFewVoxels ==
    (HistogramPath /\ Cardinality(Binned) < nv.n2pct) =>
        /\ nv.walkLo = nBins /\ nv.walkHi = -1
        /\ nv.lo = nBins /\ nv.hi = -1

\* the low and high bins coincided and the expansion has widened them
ExpansionHappened ==
    /\ HistogramPath
    /\ nv.walkLo = nv.walkHi
    /\ nv.lo < nv.hi

\* a buffer without NaN whose walks have run off: percentileFrac above 1
RunsOffWithoutNaN ==
    /\ HistogramPath
    /\ \A i \in DOMAIN nv.img : ~IsNaN(nv.img[i])
    /\ nv.lo = nBins /\ nv.hi = -1

----------------------------------------------------------------------------
(* Claims about the world position of a voxel *)

\* the canonical index of native voxel n: canonical axis j is native axis
\* perm[j], counted from the other end when the axis is reflected
CanonicalIndexOf(n) ==
    [j \in Idx3 |->
        IF nv.flip[j] = 1
        THEN hdr.dims[nv.perm[j]] - 1 - n[nv.perm[j] - 1]
        ELSE n[nv.perm[j] - 1]]

NativeWorld(n) == vox2mm(n, RotMOf(hdr.affine))

CanonicalWorld(c) == vox2mm(c, nv.matRAS)

\* C27: for every well-formed affine and every native voxel index v of
\* the volume, the world coordinate of v under the native affine equals
\* the world coordinate under matRAS of the canonical index obtained from
\* v by perm and flip; dimsRAS[1..3] is dims[1..3] permuted by perm and
\* the 3x3 diagonal of matRAS is non-negative.
C27_WorldPositionPreserved ==
    (pc = "constructed" /\ WellFormed(hdr.affine)) =>
        /\ \A n \in NativeVoxels :
              /\ CanonicalIndexOf(n) \in CanonicalVoxels
              /\ CanonicalWorld(CanonicalIndexOf(n)) = NativeWorld(n)
        /\ \A j \in Idx3 : nv.dimsRAS[j + 1] = hdr.dims[nv.perm[j]]
        /\ \A j \in Idx3 : Ge(nv.matRAS[5 * j], 0)

\* a cyclic permutation with a reflected axis, an offset and three
\* different dimensions: the last voxel of the reflected axis is the first
\* canonical one and has kept its place in the world
C27_Witness ==
    /\ pc = "constructed"
    /\ nv.perm = [k \in Idx3 |-> IF k = 0 THEN 2 ELSE IF k = 1 THEN 3 ELSE 1]
    /\ nv.flip[0] = 1
    /\ hdr.dims[1] = 3 /\ hdr.dims[2] = 2 /\ hdr.dims[3] = 1
    /\ hdr.affine[0][3] # 0
    /\ nv.matRAS # RotMOf(hdr.affine)
    /\ \E n \in NativeVoxels :
          /\ CanonicalIndexOf(n) # n
          /\ CanonicalIndexOf(n)[0] = 0
          /\ CanonicalWorld(CanonicalIndexOf(n)) = NativeWorld(n)
          /\ \A i \in Idx3 : IsFinite(NativeWorld(n)[i])

============================================================================
